---- MODULE Spec2Model ----
(***************************************************************************)
(* A model of js-test-tool's suite page server:                            *)
(*   - CoverageData (coverage.py): the coverage store and its merge,       *)
(*   - the page handlers and SuitePageRequestHandler (suite_server.py),    *)
(*   - SuitePageServer.start / all_coverage_data (suite_server.py).        *)
(*                                                                         *)
(* Strings that the code takes apart (file paths, URL paths) are sequences *)
(* of tokens: "/" and "?" are tokens of their own, every other token is a  *)
(* run of characters without "/" and "?".  So "/r/lib/x.js" is             *)
(* <<"/", "r", "/", "lib", "/", "x.js">>.                                  *)
(*                                                                         *)
(* Four specifications share the definitions:                              *)
(*   SpecCoverage  sequential calls of CoverageData.load_from_dict,        *)
(*   SpecThreads   two callers of load_from_dict interleaved statement by  *)
(*                 statement,                                              *)
(*   Spec          the server answering one HTTP request after another,    *)
(*   SpecWait      all_coverage_data polling while coverage POSTs arrive.  *)
(***************************************************************************)
EXTENDS Integers, Sequences, FiniteSets, TLC

\* ------------------------------------------------------------------------
\* Bounds of the model
\* ------------------------------------------------------------------------

\* Longest generic lineData array a report carries.
MaxLines == 2

\* ------------------------------------------------------------------------
\* Values
\* ------------------------------------------------------------------------

\* JSON null in a lineData array ("No coverage information"); execution
\* counts are the naturals.
Null == -1

SLASH == "/"

\* ------------------------------------------------------------------------
\* Paths (str.startswith, slicing, os.path.join)
\* ------------------------------------------------------------------------

\* rel_src.startswith('/')
StartsWithSlash(s) == Len(s) > 0 /\ s[1] = SLASH

\* os.path.join(a, b) of posixpath: an absolute b replaces a; otherwise b is
\* appended, after a separator unless a is empty or already ends with one.
PathJoin(a, b) ==
    IF StartsWithSlash(b) THEN b
    ELSE IF Len(a) = 0 \/ a[Len(a)] = SLASH THEN a \o b
    ELSE a \o <<SLASH>> \o b

\* coverage.py 318-324: one leading slash is removed, then the path is joined
\* to the root directory.
FullPath(root_dir, rel_src) ==
    PathJoin(root_dir, IF StartsWithSlash(rel_src) THEN Tail(rel_src) ELSE rel_src)

\* ------------------------------------------------------------------------
\* CoverageData.load_from_dict
\* ------------------------------------------------------------------------

\* Mutant of LineMap: the "is not None" filter is missing, so a null entry is
\* stored as a line that was not covered.
LineMapKeepsNull(line_list) ==
    [num \in 0 .. (Len(line_list) - 1) |-> line_list[num + 1] > 0]

\* coverage.py 341-343: line numbers are the (0-based) indices of the entries
\* that are not None; a line is covered when its count is > 0.
LineMap(line_list) ==
    [num \in {n \in 0 .. (Len(line_list) - 1) : line_list[n + 1] # Null}
        |-> line_list[num + 1] > 0]

\* Mutant of MergedFlag: plain overwrite, the last report wins.
MergedFlagOverwrite(is_covered, already_covered) == is_covered

\* coverage.py 356: the flag stored for a line that the report mentions.
\* already_covered is existing_dict.get(line_num, False).
MergedFlag(is_covered, already_covered) == is_covered \/ already_covered

\* coverage.py 351-356: the loop over the report's lines, writing into the
\* existing dict; lines the report does not mention keep their entry.
MergeLines(existing_dict, cover_dict) ==
    [num \in DOMAIN existing_dict \cup DOMAIN cover_dict |->
        IF num \in DOMAIN cover_dict
        THEN MergedFlag(cover_dict[num],
                        IF num \in DOMAIN existing_dict
                        THEN existing_dict[num] ELSE FALSE)
        ELSE existing_dict[num]]

\* Mutant of StoreSrc: the report always replaces what the store holds.
StoreSrcReplace(sd, full_path, cover_dict) ==
    [p \in DOMAIN sd \cup {full_path} |->
        IF p = full_path THEN cover_dict ELSE sd[p]]

\* coverage.py 347-361: combine the report of one source with what the store
\* holds for it, or store it when the source is new.
StoreSrc(sd, full_path, cover_dict) ==
    IF full_path \in DOMAIN sd
    THEN [sd EXCEPT ![full_path] = MergeLines(@, cover_dict)]
    ELSE [p \in DOMAIN sd \cup {full_path} |->
            IF p = full_path THEN cover_dict ELSE sd[p]]

\* coverage.py 316-361: the body of the loop for one (rel_src, cover_dict)
\* item.  An item is [rel_src, is_dict, has_line_data, lineData]: is_dict
\* says whether the item's value is a JSON object, has_line_data whether it
\* has a 'lineData' key (an item without one is ignored).
LoadEntry(sd, root_dir, entry) ==
    IF entry.has_line_data
    THEN StoreSrc(sd, FullPath(root_dir, entry.rel_src), LineMap(entry.lineData))
    ELSE sd

\* coverage.py 330: cover_dict.get('lineData', None) raises AttributeError
\* when the item's value is not a dict; nothing in load_from_dict catches it.
LoadFromDictRaises(cover_dict) ==
    \E i \in 1 .. Len(cover_dict) : ~cover_dict[i].is_dict

\* coverage.py 316: the loop over the items of cover_dict.  A cover_dict is
\* the sequence of its items in iteration order.  The loop ends at the first
\* item that raises; what the items before it stored stays stored.
RECURSIVE LoadFromDict(_, _, _)
LoadFromDict(sd, root_dir, cover_dict) ==
    IF cover_dict = <<>> THEN sd
    ELSE IF ~Head(cover_dict).is_dict THEN sd
    ELSE LoadFromDict(LoadEntry(sd, root_dir, Head(cover_dict)),
                      root_dir, Tail(cover_dict))

\* CoverageData.coverage_for_src: the line map of a source, or None.  None is
\* a value that is no line map (line numbers are never negative).
NoCoverage == (Null :> FALSE)
CoverageForSrc(sd, full_src_path) ==
    IF full_src_path \in DOMAIN sd THEN sd[full_src_path] ELSE NoCoverage

\* What a cover_dict reports, up to its first item that is no dict, as a set
\* of <<full path, line, covered>>.
RECURSIVE ReportedLines(_, _)
ReportedLines(root_dir, cover_dict) ==
    IF cover_dict = <<>> THEN {}
    ELSE IF ~Head(cover_dict).is_dict THEN {}
    ELSE LET e == Head(cover_dict)
             here == IF e.has_line_data
                     THEN {<<FullPath(root_dir, e.rel_src), n - 1, e.lineData[n] > 0>> :
                              n \in {k \in 1 .. Len(e.lineData) : e.lineData[k] # Null}}
                     ELSE {}
         IN here \cup ReportedLines(root_dir, Tail(cover_dict))

\* ------------------------------------------------------------------------
\* Inputs of the coverage specifications
\* ------------------------------------------------------------------------

RootR == <<"/", "r">>
RelX == <<"lib", "/", "x.js">>
RelSlashX == <<"/", "lib", "/", "x.js">>
RelY == <<"y.js">>
PathX == <<"/", "r", "/", "lib", "/", "x.js">>
PathY == <<"/", "r", "/", "y.js">>

RECURSIVE SeqsUpTo(_, _)
SeqsUpTo(S, n) ==
    IF n = 0 THEN {<<>>}
    ELSE LET shorter == SeqsUpTo(S, n - 1)
         IN shorter \cup {Append(s, x) : s \in {t \in shorter : Len(t) = n - 1}, x \in S}

\* The two reports of the documented example.
ExampleFirst == <<Null, 1, 0, 5>>
ExampleSecond == <<Null, 0, 1, 0>>

LineDatas == SeqsUpTo({Null, 0, 1}, MaxLines) \cup {ExampleFirst, ExampleSecond}
SmallLineDatas == {<<0>>, <<1>>, <<Null, 1>>}

Item(rel_src, lineData) ==
    [rel_src |-> rel_src, is_dict |-> TRUE, has_line_data |-> TRUE,
     lineData |-> lineData]
ItemWithoutLineData(rel_src) ==
    [rel_src |-> rel_src, is_dict |-> TRUE, has_line_data |-> FALSE,
     lineData |-> <<>>]
\* An item whose value is not a JSON object, e.g. "lib/x.js": 1.
ItemNotADict(rel_src) ==
    [rel_src |-> rel_src, is_dict |-> FALSE, has_line_data |-> FALSE,
     lineData |-> <<>>]

\* Reports of one source (lib/x.js under both spellings, any line data; y.js
\* with short line data), items without line data, and reports of two items.
CoverDicts ==
    {<<Item(r, ld)>> : r \in {RelX, RelSlashX}, ld \in LineDatas}
    \cup {<<Item(RelY, ld)>> : ld \in SmallLineDatas}
    \cup {<<ItemWithoutLineData(r)>> : r \in {RelX, RelY}}
    \cup {<<Item(RelX, a), Item(r, b)>> :
            r \in {RelSlashX, RelY}, a \in SmallLineDatas, b \in SmallLineDatas}
    \cup {<<Item(RelX, <<1>>), ItemNotADict(RelY), Item(RelY, <<1>>)>>}

\* ------------------------------------------------------------------------
\* State
\* ------------------------------------------------------------------------

VARIABLES
    src_dict,        \* CoverageData._src_dict: full path -> (line -> covered)
    merged,          \* history: the sources, and the <<path, line, covered>>, of all reports loaded
    last_dict,       \* history: the cover_dict of the last load_from_dict call
    shared_dict,     \* SpecThreads: _src_dict as full path -> reference to a dict object
    heap,            \* SpecThreads: dict object -> (line -> covered)
    thr,             \* SpecThreads: each caller's position and local variables
    jscover_path,    \* SuitePageServer._jscover_path
    coverage_data,   \* SuitePageServer.coverage_data: "None" or the CoverageData object
    suite_name_set,  \* CoverageData: the suite names reports came in for
    expected_src,    \* CoverageData: the sources start() announced
    src_instr_dict,  \* SuitePageServer.src_instr_dict: suite name -> instrumenter
    start,           \* where the thread that called start() is
    disk,            \* the files under the suites' root directories: full path -> content
    request,         \* the last HTTP request the server handled
    response,        \* what the server did with it
    waiter,          \* the thread that calls all_coverage_data
    now,             \* time.time(), in units of COVERAGE_WAIT_TIME
    suite_desc_list, \* SpecConstruct: the suite descriptions given to SuitePageServer(...)
    ctor,            \* SpecConstruct: where the constructor is, and what it has made
    instr,           \* SpecInstr: a SrcInstrumenter and the call that runs on it
    used_ports,      \* SpecInstr: SrcInstrumenter.used_ports
    stop,            \* SpecStop: where SuitePageServer.stop() is, and what it has done
    conn,            \* SpecServe: the connections of the clients and their requests
    retry,           \* SpecRetry: a call of SrcInstrumenter._retry
    lease,           \* SpecPorts: the threads that call _random_unused_port
    used_ports_list, \* SpecPorts: SrcInstrumenter.used_ports, the list
    post,            \* SpecReport: the coverage POST the serving thread is handling
    processes,       \* SpecLife: the JSCover processes launched: handle -> "running" or "terminated"
    suite            \* SpecSuite: a SuiteDescription being constructed and used

covVars == <<src_dict, merged, last_dict>>
thrVars == <<shared_dict, heap, thr>>
srvVars == <<jscover_path, coverage_data, suite_name_set, expected_src,
             src_instr_dict, start, disk, request, response>>
waitVars == <<waiter, now>>
ctorVars == <<suite_desc_list, ctor>>
instrVars == <<instr, used_ports>>
moreVars == <<stop, conn, retry, lease, used_ports_list, post, processes, suite>>
vars == <<covVars, thrVars, srvVars, waitVars, ctorVars, instrVars, moreVars>>

EmptyDict == [p \in {} |-> {}]
NoCall == <<>>

\* CoverageData.__init__
CovInit ==
    /\ src_dict = EmptyDict
    /\ merged = [lines |-> {}, srcs |-> {}]
    /\ last_dict = NoCall

\* The variables of SpecThreads, in the specifications that have no threads.
ThreadsUnused ==
    /\ shared_dict = EmptyDict
    /\ heap = EmptyDict
    /\ thr = EmptyDict

NoRequest == [method |-> "none", path |-> <<>>]
NoAnswer == [status |-> -1]
NotWaiting == [pc |-> "unused"]

\* The variables of the page server, in the specifications that have no server.
ServerUnused ==
    /\ jscover_path = "None"
    /\ coverage_data = "None"
    /\ suite_name_set = {}
    /\ expected_src = {}
    /\ src_instr_dict = EmptyDict
    /\ start = [pc |-> "unused", pending |-> {}, launched |-> {}]
    /\ disk = EmptyDict
    /\ request = NoRequest
    /\ response = NoAnswer

\* The variables of the waiting thread, in the specifications without one.
WaitUnused ==
    /\ waiter = NotWaiting
    /\ now = 0

\* The variables of the constructor, in the specifications that start from a
\* constructed server.
CtorUnused ==
    /\ suite_desc_list = <<>>
    /\ ctor = [pc |-> "unused"]

\* The variables of the instrumenter, in the specifications without one.
InstrUnused ==
    /\ instr = [pc |-> "unused"]
    /\ used_ports = {}

\* The variables of the specifications that follow SpecInstr, each in the
\* specifications that do not use it.
StopUnused == stop = [pc |-> "unused"]
ConnUnused == conn = <<>>
RetryUnused == retry = [pc |-> "unused"]
LeaseUnused == lease = <<>> /\ used_ports_list = <<>>
PostUnused == post = [pc |-> "unused"]
ProcessesUnused == processes = <<>>
SuiteUnused == suite = [pc |-> "unused"]
LaterUnused == ProcessesUnused /\ SuiteUnused
MoreUnused ==
    StopUnused /\ ConnUnused /\ RetryUnused /\ LeaseUnused /\ PostUnused /\ LaterUnused

\* ------------------------------------------------------------------------
\* SpecCoverage: load_from_dict called again and again on one store
\* ------------------------------------------------------------------------

\* The sources a cover_dict carries line data for, up to its first item that
\* is no dict.
ReportedSrcs(root_dir, cover_dict) ==
    {FullPath(root_dir, cover_dict[i].rel_src) :
        i \in {k \in 1 .. Len(cover_dict) :
                  /\ cover_dict[k].has_line_data
                  /\ \A j \in 1 .. k : cover_dict[j].is_dict}}

CallLoadFromDict ==
    \E cover_dict \in CoverDicts :
        /\ src_dict' = LoadFromDict(src_dict, RootR, cover_dict)
        /\ merged' = [lines |-> merged.lines \cup ReportedLines(RootR, cover_dict),
                      srcs |-> merged.srcs \cup ReportedSrcs(RootR, cover_dict)]
        /\ last_dict' = cover_dict

InitCoverage ==
    CovInit /\ ThreadsUnused /\ ServerUnused /\ WaitUnused /\ CtorUnused /\ InstrUnused
    /\ MoreUnused
NextCoverage == CallLoadFromDict /\ UNCHANGED <<thrVars, srvVars, waitVars, ctorVars, instrVars, moreVars>>
SpecCoverage == InitCoverage /\ [][NextCoverage]_vars

\* ------------------------------------------------------------------------
\* Properties of the sequential merge
\* ------------------------------------------------------------------------

\* C1: whatever reports were loaded, in whatever order, the store holds
\* exactly the sources and lines some report mentioned, and the flag of each
\* line is the OR of the flags all the reports gave for it.  The history
\* `merged` is a set, so it is the same for every permutation of the calls.
C1_MergeIsOrOfAllReports ==
    /\ DOMAIN src_dict = merged.srcs
    /\ \A p \in DOMAIN src_dict :
          /\ DOMAIN src_dict[p] = {t[2] : t \in {u \in merged.lines : u[1] = p}}
          /\ \A n \in DOMAIN src_dict[p] :
                src_dict[p][n] = (<<p, n, TRUE>> \in merged.lines)

\* C1 witness: a line that one report gave as covered and the last report
\* loaded gave as not covered is stored as covered.
C1_Witness ==
    /\ last_dict # NoCall
    /\ \E t \in ReportedLines(RootR, last_dict) :
          /\ t[3] = FALSE
          /\ <<t[1], t[2], TRUE>> \in merged.lines
          /\ <<t[1], t[2], TRUE>> \notin ReportedLines(RootR, last_dict)
          /\ src_dict[t[1]][t[2]] = TRUE

\* C3: no call of load_from_dict removes a source or a line from the store,
\* or turns a covered line into an uncovered one.
C3_CoverageMonotonic ==
    [][\A p \in DOMAIN src_dict :
          /\ p \in DOMAIN src_dict'
          /\ \A n \in DOMAIN src_dict[p] :
                /\ n \in DOMAIN src_dict'[p]
                /\ (src_dict[p][n] => src_dict'[p][n])]_vars

\* C3 witness: the last report loaded gives count 0 for a line, and leaves
\* out another line, of a source whose lines are both still stored as covered.
C3_Witness ==
    /\ last_dict = <<Item(RelX, <<0>>)>>
    /\ PathX \in DOMAIN src_dict
    /\ DOMAIN src_dict[PathX] = {0, 1}
    /\ src_dict[PathX][0] /\ src_dict[PathX][1]

\* The line map the claim describes for a lineData array.
IsLineMapOf(m, lineData) ==
    /\ DOMAIN m \subseteq 0 .. (Len(lineData) - 1)
    /\ \A i \in 0 .. (Len(lineData) - 1) :
          /\ lineData[i + 1] = Null => i \notin DOMAIN m
          /\ (lineData[i + 1] # Null /\ lineData[i + 1] > 0) => (i \in DOMAIN m /\ m[i])
          /\ lineData[i + 1] = 0 => (i \in DOMAIN m /\ ~m[i])

\* The absolute path of each relative path of the inputs under root /r,
\* written out.
AbsoluteUnderR(rel_src) ==
    CASE rel_src = RelX -> PathX
      [] rel_src = RelSlashX -> PathX
      [] rel_src = RelY -> PathY

\* C4: a report of one source that the store does not hold yet is stored
\* under root_dir joined with the relative path, as the line map of its
\* lineData (null: absent, > 0: true, 0: false); the documented example
\* [null, 1, 0, 5] gives {1: true, 2: false, 3: true} and a following
\* [null, 0, 1, 0] gives {1: true, 2: true, 3: true}.
C4_LineMapAndExample ==
    [][/\ (/\ Len(last_dict') = 1
           /\ last_dict'[1].has_line_data
           /\ AbsoluteUnderR(last_dict'[1].rel_src) \notin DOMAIN src_dict)
            => /\ DOMAIN src_dict'
                     = DOMAIN src_dict \cup {AbsoluteUnderR(last_dict'[1].rel_src)}
               /\ IsLineMapOf(src_dict'[AbsoluteUnderR(last_dict'[1].rel_src)],
                              last_dict'[1].lineData)
       /\ (src_dict = EmptyDict /\ last_dict' = <<Item(RelX, ExampleFirst)>>)
            => CoverageForSrc(src_dict', PathX) = (1 :> TRUE @@ 2 :> FALSE @@ 3 :> TRUE)
       /\ (/\ CoverageForSrc(src_dict, PathX) = (1 :> TRUE @@ 2 :> FALSE @@ 3 :> TRUE)
           /\ last_dict' = <<Item(RelX, ExampleSecond)>>)
            => CoverageForSrc(src_dict', PathX) = (1 :> TRUE @@ 2 :> TRUE @@ 3 :> TRUE)
      ]_vars

\* C4 witness: the two reports of the example have been loaded, the second
\* one last, and nothing else for that source.
C4_Witness ==
    /\ last_dict = <<Item(RelX, ExampleSecond)>>
    /\ {u \in merged.lines : u[1] = PathX}
          = ReportedLines(RootR, <<Item(RelX, ExampleFirst)>>)
            \cup ReportedLines(RootR, <<Item(RelX, ExampleSecond)>>)
    /\ CoverageForSrc(src_dict, PathX) = (1 :> TRUE @@ 2 :> TRUE @@ 3 :> TRUE)

\* ------------------------------------------------------------------------
\* SpecThreads: load_from_dict run by two callers at once
\*
\* load_from_dict takes no lock (coverage.py 280-361), so callers on
\* different threads interleave between its statements.  Each caller loads a
\* report of one source.  A dict is an object: _src_dict holds references,
\* and existing_dict (line 347) is a reference to the stored object.
\* ------------------------------------------------------------------------

Callers == {"t1", "t2"}

\* The dict object already stored for lib/x.js when the callers start (if any).
StoredObject == "stored"
NoRef == "None"

ThreadLineDatas == SeqsUpTo({Null, 0, 1}, MaxLines) \ {<<>>}

\* The lines of a caller's cover_dict in iteration order.
RECURSIVE LinesOf(_)
LinesOf(cover_dict) ==
    IF DOMAIN cover_dict = {} THEN <<>>
    ELSE LET n == CHOOSE k \in DOMAIN cover_dict : \A j \in DOMAIN cover_dict : k <= j
         IN <<n>> \o LinesOf([j \in DOMAIN cover_dict \ {n} |-> cover_dict[j]])

IdleCaller ==
    [pc |-> "idle", full_path |-> <<>>, existing_dict |-> NoRef,
     todo |-> <<>>, already_covered |-> FALSE]

InitThreads ==
    /\ src_dict = EmptyDict
    /\ last_dict = NoCall
    /\ thr = [t \in Callers |-> IdleCaller]
    /\ ServerUnused
    /\ WaitUnused
    /\ CtorUnused
    /\ InstrUnused
    /\ MoreUnused
    /\ \/ /\ shared_dict = EmptyDict
          /\ heap = EmptyDict
          /\ merged = [lines |-> {}, srcs |-> {}]
       \/ \E ld \in {<<0>>, <<0, 0>>} :
             /\ shared_dict = (PathX :> StoredObject)
             /\ heap = (StoredObject :> LineMap(ld))
             /\ merged = [lines |-> ReportedLines(RootR, <<Item(RelX, ld)>>),
                          srcs |-> {PathX}]

\* coverage.py 316-343: the caller enters load_from_dict with a report of one
\* source; full_path and cover_dict are locals, cover_dict a new dict object.
CallerEnters(t) ==
    /\ thr[t].pc = "idle"
    /\ \E rel_src \in {RelX, RelSlashX}, ld \in ThreadLineDatas :
          /\ heap' = [o \in DOMAIN heap \cup {t} |->
                        IF o = t THEN LineMap(ld) ELSE heap[o]]
          /\ thr' = [thr EXCEPT ![t] = [pc |-> "get",
                                        full_path |-> FullPath(RootR, rel_src),
                                        existing_dict |-> NoRef,
                                        todo |-> LinesOf(LineMap(ld)),
                                        already_covered |-> FALSE]]
          /\ merged' = [lines |-> merged.lines
                                    \cup ReportedLines(RootR, <<Item(rel_src, ld)>>),
                        srcs |-> merged.srcs \cup {FullPath(RootR, rel_src)}]
    /\ UNCHANGED <<shared_dict, src_dict, last_dict>>

\* coverage.py 347-349: existing_dict = self._src_dict.get(full_path)
CallerGetsExisting(t) ==
    /\ thr[t].pc = "get"
    /\ LET ref == IF thr[t].full_path \in DOMAIN shared_dict
                  THEN shared_dict[thr[t].full_path] ELSE NoRef
       IN thr' = [thr EXCEPT ![t].existing_dict = ref,
                             ![t].pc = IF ref = NoRef THEN "store"
                                       ELSE IF thr[t].todo = <<>> THEN "done"
                                       ELSE "read"]
    /\ UNCHANGED <<shared_dict, heap, covVars>>

\* coverage.py 361: self._src_dict[full_path] = cover_dict
CallerStoresNew(t) ==
    /\ thr[t].pc = "store"
    /\ shared_dict' = [p \in DOMAIN shared_dict \cup {thr[t].full_path} |->
                          IF p = thr[t].full_path THEN t ELSE shared_dict[p]]
    /\ thr' = [thr EXCEPT ![t].pc = "done"]
    /\ UNCHANGED <<heap, covVars>>

\* coverage.py 355: already_covered = existing_dict.get(line_num, False)
CallerReadsLine(t) ==
    /\ thr[t].pc = "read"
    /\ LET d == heap[thr[t].existing_dict]
           n == Head(thr[t].todo)
       IN thr' = [thr EXCEPT ![t].already_covered = IF n \in DOMAIN d THEN d[n] ELSE FALSE,
                             ![t].pc = "write"]
    /\ UNCHANGED <<shared_dict, heap, covVars>>

\* coverage.py 356: existing_dict[line_num] = is_covered or already_covered
CallerWritesLine(t) ==
    /\ thr[t].pc = "write"
    /\ LET ref == thr[t].existing_dict
           n == Head(thr[t].todo)
           flag == MergedFlag(heap[t][n], thr[t].already_covered)
       IN heap' = [heap EXCEPT ![ref] =
                      [j \in DOMAIN heap[ref] \cup {n} |-> IF j = n THEN flag ELSE heap[ref][j]]]
    /\ thr' = [thr EXCEPT ![t].todo = Tail(thr[t].todo),
                          ![t].pc = IF Len(thr[t].todo) = 1 THEN "done" ELSE "read"]
    /\ UNCHANGED <<shared_dict, covVars>>

NextThreads ==
    /\ \E t \in Callers :
          \/ CallerEnters(t)
          \/ CallerGetsExisting(t)
          \/ CallerStoresNew(t)
          \/ CallerReadsLine(t)
          \/ CallerWritesLine(t)
    /\ UNCHANGED <<srvVars, waitVars, ctorVars, instrVars, moreVars>>

SpecThreads == InitThreads /\ [][NextThreads]_vars

\* What the store holds for a line, through the references.
SharedHasLine(p, n) ==
    /\ p \in DOMAIN shared_dict
    /\ n \in DOMAIN heap[shared_dict[p]]
SharedCovered(p, n) == SharedHasLine(p, n) /\ heap[shared_dict[p]][n]

\* C2: when every caller has finished, every line that a report mentioned is
\* in the store and every line that a report gave as covered is covered.
C2_NoLostUpdate ==
    (\A t \in Callers : thr[t].pc = "done")
    => \A u \in merged.lines :
          /\ SharedHasLine(u[1], u[2])
          /\ u[3] => SharedCovered(u[1], u[2])

\* ------------------------------------------------------------------------
\* The page server: configuration and environment
\*
\* A URL path, a file path, a suite name and a page's content are strings,
\* written as sequences of tokens; "/" and "?" are tokens of their own.  The
\* empty string is the empty sequence.
\* ------------------------------------------------------------------------

\* Python's None, for a content or a MIME type.
None == <<"None">>

RootQ == <<"/", "q">>
LibJq == <<"lib", "/", "jq.js">>
SpecT == <<"spec", "/", "t.js">>
FixF == <<"fix", "/", "f.html">>
NotListed == <<"not-listed.js">>

\* SuitePageServer.desc_dict: two suites.  Suite "demo" has root /r and one
\* path of each kind, suite "b" has root /q.
desc_dict ==
    ("demo" :> [root_dir |-> RootR, lib_paths |-> <<LibJq>>, src_paths |-> <<RelX>>,
                spec_paths |-> <<SpecT>>, fixture_paths |-> <<FixF>>])
    @@ ("b" :> [root_dir |-> RootQ, lib_paths |-> <<>>, src_paths |-> <<RelY>>,
                spec_paths |-> <<SpecT>>, fixture_paths |-> <<>>])

\* desc_dict.get(suite_name) is not None
HasDesc(suite_name) == Len(suite_name) = 1 /\ suite_name[1] \in DOMAIN desc_dict
\* desc_dict.get(suite_name), when there is one
Desc(suite_name) == desc_dict[suite_name[1]]
\* desc_dict.keys()
DescKeys == {<<k>> : k \in DOMAIN desc_dict}

InSeq(x, s) == \E i \in 1 .. Len(s) : s[i] = x

\* What a file that exists and is not empty holds.
FileText(full_path) == <<"raw">> \o full_path

\* The files on disk: lib/x.js of suite demo is missing, empty or not empty;
\* not-listed.js, which no suite lists, and the lib and fixture files of demo
\* are there; the spec files and y.js are missing.
Disks ==
    {[p \in ({PathJoin(RootR, LibJq), PathJoin(RootR, FixF),
              PathJoin(RootR, NotListed)} \cup xs) |->
          IF p = PathX /\ x_empty THEN <<>> ELSE FileText(p)] :
        xs \in {{}, {PathX}}, x_empty \in BOOLEAN}

\* The runner files among the package's resources.
RunnerResources == {<<"runner", "/", "jasmine.js">>}

\* mimetypes.guess_type on the names used here: by extension.
JsNames == {"x.js", "jq.js", "t.js", "y.js", "not-listed.js", "jasmine.js", "nope.js"}
HtmlNames == {"f.html"}

\* ------------------------------------------------------------------------
\* SrcInstrumenter.instrumented_src
\* ------------------------------------------------------------------------

MAX_CONNECT_ATTEMPTS == 10

\* What requests.get(url) does on one attempt: the connection is refused, or
\* JSCover answers with a status code and a text that is ASCII or not.
Refused == [kind |-> "refused", status_code |-> 0, ascii |-> TRUE, text |-> <<>>]
Answer(status_code, ascii, text) ==
    [kind |-> "answer", status_code |-> status_code, ascii |-> ascii, text |-> text]

Returns(value) == [raised |-> "none", value |-> value]
Raises(error) == [raised |-> error, value |-> None]

\* coverage.py 231-249.  response.text is a unicode string; decode('utf-8')
\* of a unicode string first encodes it as ASCII, which raises
\* UnicodeEncodeError when the text has a character outside ASCII.
GetSrcFromJscover(get) ==
    IF get.kind = "refused" THEN Raises("ConnectionError")
    ELSE IF get.status_code # 200 THEN Raises("SrcInstrumenterError")
    ELSE IF ~get.ascii THEN Raises("UnicodeEncodeError")
    ELSE Returns(get.text)

\* coverage.py 132-168: tries[i] is what the i-th call of try_func does.
RECURSIVE Retry(_, _, _, _)
Retry(tries, max_attempts, fail_fast_errors, num_attempts) ==
    LET outcome == tries[num_attempts + 1]
    IN IF outcome.raised = "none" THEN outcome
       ELSE IF outcome.raised \in fail_fast_errors THEN outcome
       ELSE IF num_attempts + 1 >= max_attempts THEN outcome
       ELSE Retry(tries, max_attempts, fail_fast_errors, num_attempts + 1)

\* coverage.py 108-130, for a started instrumenter (start() registers an
\* instrumenter only after its start() returned, suite_server.py 110-113);
\* gets[i] is what the i-th requests.get does.
ConnectionErrorAsSrcInstrumenterError(outcome) ==
    IF outcome.raised = "ConnectionError" THEN Raises("SrcInstrumenterError")
    ELSE outcome

InstrumentedSrc(gets) ==
    ConnectionErrorAsSrcInstrumenterError(
        Retry([i \in 1 .. Len(gets) |-> GetSrcFromJscover(gets[i])],
              MAX_CONNECT_ATTEMPTS, {}, 0))

\* ------------------------------------------------------------------------
\* CoverageData, the part the server uses that coverage.py does not have
\* ------------------------------------------------------------------------

\* CoverageData.add_suite_name: record that a report came in for the suite.
AddSuiteName(names, suite_name) == names \cup {suite_name}
\* CoverageData.suite_name_list: the names recorded.
SuiteNameList(names) == names
\* CoverageData.add_expected_src: announce a source of a suite.
AddExpectedSrc(expected, root_dir, rel_path) == expected \cup {PathJoin(root_dir, rel_path)}

\* ------------------------------------------------------------------------
\* The page handlers
\* ------------------------------------------------------------------------

RECURSIVE FirstIn(_, _, _)
\* The first position at or after `from` of a token of toks in s; Len(s) + 1
\* when there is none.
FirstIn(s, toks, from) ==
    IF from > Len(s) THEN Len(s) + 1
    ELSE IF s[from] \in toks THEN from
    ELSE FirstIn(s, toks, from + 1)

NoMatch == [matched |-> FALSE, groups |-> <<>>]
Match(groups) == [matched |-> TRUE, groups |-> groups]

\* suite_server.py 312: ^/suite/([^?/]+)/?(\?.*)?$
SuitePageRegex(path) ==
    LET rest == SubSeq(path, 5, Len(path))
    IN IF /\ Len(path) >= 4
          /\ SubSeq(path, 1, 3) = <<"/", "suite", "/">>
          /\ path[4] \notin {"/", "?"}
          /\ \/ rest = <<>>
             \/ rest = <<"/">>
             \/ rest[1] = "?"
             \/ (Len(rest) >= 2 /\ rest[1] = "/" /\ rest[2] = "?")
       THEN Match(<<SubSeq(path, 4, 4)>>)
       ELSE NoMatch

\* suite_server.py 358: ^/runner/([^\?]+).*$
RunnerRegex(path) ==
    LET k == FirstIn(path, {"?"}, 4)
    IN IF /\ Len(path) >= 4
          /\ SubSeq(path, 1, 3) = <<"/", "runner", "/">>
          /\ k > 4
       THEN Match(<<SubSeq(path, 4, k - 1)>>)
       ELSE NoMatch

\* suite_server.py 394 and 492: ^/suite/([^/]+)/include/([^?]+).*$
IncludeRegex(path) ==
    LET j == FirstIn(path, {"/"}, 4)
        k == FirstIn(path, {"?"}, j + 3)
    IN IF /\ Len(path) >= 4
          /\ SubSeq(path, 1, 3) = <<"/", "suite", "/">>
          /\ j > 4
          /\ j + 3 <= Len(path)
          /\ SubSeq(path, j, j + 2) = <<"/", "include", "/">>
          /\ k > j + 3
       THEN Match(<<SubSeq(path, 4, j - 1), SubSeq(path, j + 3, k - 1)>>)
       ELSE NoMatch

\* suite_server.py 586: ^/jscoverage-store/([^/]+)/?$
StoreCoverageRegex(path) ==
    LET j == FirstIn(path, {"/"}, 4)
    IN IF /\ Len(path) >= 4
          /\ SubSeq(path, 1, 3) = <<"/", "jscoverage-store", "/">>
          /\ j > 4
          /\ j >= Len(path)
       THEN Match(<<SubSeq(path, 4, j - 1)>>)
       ELSE NoMatch

PATH_REGEX(handler, path) ==
    CASE handler = "SuitePageHandler" -> SuitePageRegex(path)
      [] handler = "RunnerPageHandler" -> RunnerRegex(path)
      [] handler = "InstrumentedSrcPageHandler" -> IncludeRegex(path)
      [] handler = "StoreCoveragePageHandler" -> StoreCoverageRegex(path)
      [] handler = "DependencyPageHandler" -> IncludeRegex(path)

\* Every handler takes every method.
AnyMethod(handler) == {"GET", "POST"}

\* suite_server.py 230 and 589
HTTP_METHODS(handler) ==
    IF handler = "StoreCoveragePageHandler" THEN {"POST"} ELSE {"GET"}

\* suite_server.py 292-300
GuessMimeType(url) ==
    IF url[Len(url)] \in JsNames THEN "application/javascript"
    ELSE IF url[Len(url)] \in HtmlNames THEN "text/html"
    ELSE "text/plain"

\* What load_page hands back: a content (None to decline) or an exception,
\* and the server as load_page left it.
Loaded(content, srv) == [content |-> content, raised |-> "none", srv |-> srv]
Failed(error, srv) == [content |-> None, raised |-> error, srv |-> srv]

RECURSIVE Flatten(_)
Flatten(paths) == IF paths = <<>> THEN <<>> ELSE Head(paths) \o Flatten(Tail(paths))

\* SuiteRenderer.render_to_string (suite.py 377-414): the runner page of the
\* suite, with a script tag for each lib, src and spec path.
RenderToString(suite_name, desc) ==
    <<"runner page of">> \o suite_name
        \o Flatten(desc.lib_paths \o desc.src_paths \o desc.spec_paths)

\* suite_server.py 324-341
SuitePageLoad(srv, groups) ==
    IF ~HasDesc(groups[1]) THEN Loaded(None, srv)
    ELSE Loaded(RenderToString(groups[1], Desc(groups[1])), srv)

\* suite_server.py 360-378
RunnerPageLoad(srv, groups) ==
    LET rel_path == PathJoin(<<"runner">>, groups[1])
    IN IF rel_path \notin RunnerResources THEN Loaded(None, srv)
       ELSE Loaded(<<"resource">> \o rel_path, srv)

\* suite_server.py 566-577
IsSrcFile(suite_name, rel_path) ==
    IF ~HasDesc(suite_name) THEN FALSE
    ELSE InSeq(rel_path, Desc(suite_name).src_paths)

\* suite_server.py 550-564: only SrcInstrumenterError is caught.
InstrumentedOrNone(srv, outcome) ==
    IF outcome.raised = "none" THEN Loaded(outcome.value, srv)
    ELSE IF outcome.raised = "SrcInstrumenterError" THEN Loaded(None, srv)
    ELSE Failed(outcome.raised, srv)

\* suite_server.py 535-564
SendInstrumentedSrc(srv, suite_name, rel_path, gets) ==
    IF ~(Len(suite_name) = 1 /\ suite_name[1] \in srv.instr_names)
    THEN Loaded(None, srv)
    ELSE InstrumentedOrNone(srv, InstrumentedSrc(gets))

\* suite_server.py 508-526
InstrumentedSrcLoad(srv, groups, gets) ==
    IF IsSrcFile(groups[1], groups[2])
    THEN SendInstrumentedSrc(srv, groups[1], groups[2], gets)
    ELSE Loaded(None, srv)

SuccessMessage == <<"Success: coverage data received">>

\* suite_server.py 651-662: load_from_dict on the parsed object, and what
\* the handler gives after it.
LoadReport(srv, root_dir, items) ==
    [srv EXCEPT
        !.src_dict = LoadFromDict(@, root_dir, items),
        !.merged = [lines |-> @.lines \cup ReportedLines(root_dir, items),
                    srcs |-> @.srcs \cup ReportedSrcs(root_dir, items)],
        !.last_dict = items]
ReportLoaded(items, srv) ==
    IF LoadFromDictRaises(items) THEN Failed("AttributeError", srv)
    ELSE Loaded(SuccessMessage, srv)

\* suite_server.py 634-662, the suite name being recorded.  The body of the
\* request is text that is no JSON ("malformed", the empty body included),
\* JSON that is no object ("non_object"), or a JSON object with the given
\* items ("object").
StoreNamed(srv, suite_name, body) ==
    IF ~HasDesc(suite_name) THEN Loaded(None, srv)
    ELSE IF body.json # "object" THEN Loaded(None, srv)
    ELSE ReportLoaded(body.items,
                      LoadReport(srv, Desc(suite_name).root_dir, body.items))

\* suite_server.py 621-662
StoreCoverageData(srv, suite_name, body) ==
    StoreNamed([srv EXCEPT !.suite_name_set = AddSuiteName(@, suite_name)],
               suite_name, body)

\* suite_server.py 455-484
DependencyPathAnyFile(suite_name, path) ==
    IF ~HasDesc(suite_name) THEN None
    ELSE PathJoin(Desc(suite_name).root_dir, path)

DependencyPath(suite_name, path) ==
    IF ~HasDesc(suite_name) THEN None
    ELSE LET suite_desc == Desc(suite_name)
             all_paths == suite_desc.lib_paths \o suite_desc.src_paths
                          \o suite_desc.spec_paths \o suite_desc.fixture_paths
         IN IF InSeq(path, all_paths) THEN PathJoin(suite_desc.root_dir, path)
            ELSE None

\* suite_server.py 405-445: a file that cannot be opened gives None; decoding
\* (UTF-8, else ISO-8859-1) always gives a string.
ReadFile(srv, full_path) ==
    IF full_path = None THEN Loaded(None, srv)
    ELSE IF full_path \notin DOMAIN srv.disk THEN Loaded(None, srv)
    ELSE Loaded(srv.disk[full_path], srv)

DependencyLoad(srv, groups) ==
    ReadFile(srv, DependencyPath(groups[1], groups[2]))

LoadPage(handler, srv, req, groups) ==
    CASE handler = "SuitePageHandler" -> SuitePageLoad(srv, groups)
      [] handler = "RunnerPageHandler" -> RunnerPageLoad(srv, groups)
      [] handler = "InstrumentedSrcPageHandler" -> InstrumentedSrcLoad(srv, groups, req.gets)
      [] handler = "StoreCoveragePageHandler" -> StoreCoverageData(srv, groups[1], req.body)
      [] handler = "DependencyPageHandler" -> DependencyLoad(srv, groups)

\* suite_server.py 343-347, 380-384, 447-452, 528-533, 615-619
MimeType(handler, groups) ==
    CASE handler = "SuitePageHandler" -> "text/html"
      [] handler = "RunnerPageHandler" -> GuessMimeType(groups[1])
      [] handler = "InstrumentedSrcPageHandler" -> GuessMimeType(groups[2])
      [] handler = "StoreCoveragePageHandler" -> "text/plain"
      [] handler = "DependencyPageHandler" -> GuessMimeType(groups[2])

\* suite_server.py 260-262: load_page, then mime_type.
PageAndMime(handler, groups, page) ==
    [content |-> page.content,
     mime_type |-> IF page.raised = "none" THEN MimeType(handler, groups) ELSE "None",
     raised |-> page.raised, loaded |-> TRUE, srv |-> page.srv]

MatchedPage(handler, srv, req, groups) ==
    PageAndMime(handler, groups, LoadPage(handler, srv, req, groups))

\* suite_server.py 236-265.  `loaded` says whether load_page was called.
PageContents(handler, srv, req) ==
    IF req.method \notin HTTP_METHODS(handler) \/ ~PATH_REGEX(handler, req.path).matched
    THEN [content |-> None, mime_type |-> "None", raised |-> "none",
          loaded |-> FALSE, srv |-> srv]
    ELSE MatchedPage(handler, srv, req, PATH_REGEX(handler, req.path).groups)

\* The chain with the coverage handlers whatever the instrumenter map holds.
PageHandlersCoverageAlways(instr_names) ==
    <<"SuitePageHandler", "RunnerPageHandler", "InstrumentedSrcPageHandler",
      "StoreCoveragePageHandler", "DependencyPageHandler">>

\* The chain with the dependency handler in front of the coverage handlers.
PageHandlersDependencyEarly(instr_names) ==
    <<"SuitePageHandler", "RunnerPageHandler", "DependencyPageHandler">>
    \o (IF Cardinality(instr_names) > 0
        THEN <<"InstrumentedSrcPageHandler", "StoreCoveragePageHandler">>
        ELSE <<>>)

\* suite_server.py 672-699
PageHandlers(instr_names) ==
    <<"SuitePageHandler", "RunnerPageHandler">>
    \o (IF Cardinality(instr_names) > 0
        THEN <<"InstrumentedSrcPageHandler", "StoreCoveragePageHandler">>
        ELSE <<>>)
    \o <<"DependencyPageHandler">>

\* No response is sent: the exception leaves the request handler.
NoResponse == 0

Asked(log, handler, page) ==
    Append(log, [handler |-> handler, loaded |-> page.loaded,
                 content |-> page.content, raised |-> page.raised])

RECURSIVE HandleRequestFrom(_, _, _, _)
RECURSIVE AfterPage(_, _, _, _)

\* suite_server.py 737-742: what follows a handler's page_contents.
AfterPage(handlers, req, log, page) ==
    IF page.raised # "none"
    THEN [status |-> NoResponse, content |-> None, mime_type |-> "None",
          raised |-> page.raised, log |-> log, srv |-> page.srv]
    ELSE IF page.content # None
    THEN [status |-> 200, content |-> page.content, mime_type |-> page.mime_type,
          raised |-> "none", log |-> log, srv |-> page.srv]
    ELSE HandleRequestFrom(Tail(handlers), page.srv, req, log)

\* suite_server.py 734-737
AskHandler(handlers, req, log, page) ==
    AfterPage(handlers, req, Asked(log, Head(handlers), page), page)

\* suite_server.py 726-746: the loop over the handlers from `handlers` on;
\* log lists the handlers asked so far and what each gave.
HandleRequestFrom(handlers, srv, req, log) ==
    IF handlers = <<>>
    THEN [status |-> 404, content |-> None, mime_type |-> "text/plain",
          raised |-> "none", log |-> log, srv |-> srv]
    ELSE AskHandler(handlers, req, log, PageContents(Head(handlers), srv, req))

\* ------------------------------------------------------------------------
\* Spec: the server is started and answers requests, one at a time
\* (SuitePageServer is a plain HTTPServer, suite_server.py 35)
\* ------------------------------------------------------------------------

SuiteUrl(name) == <<"/", "suite", "/", name>>
IncludeUrl(name, rel_path) == SuiteUrl(name) \o <<"/", "include", "/">> \o rel_path
StoreUrl(name) == <<"/", "jscoverage-store", "/", name>>
RunnerUrl(name) == <<"/", "runner", "/", name>>
Query == <<"?", "v=1">>

RequestPaths ==
    {SuiteUrl("demo"), SuiteUrl("zz"), SuiteUrl("demo") \o <<"/">>, SuiteUrl("b") \o Query}
    \cup {IncludeUrl("demo", r) : r \in {RelX, LibJq, SpecT, FixF, NotListed}}
    \cup {IncludeUrl("zz", RelX), IncludeUrl("b", RelX), IncludeUrl("demo", RelX) \o Query}
    \cup {RunnerUrl("jasmine.js"), RunnerUrl("nope.js")}
    \cup {StoreUrl("demo"), StoreUrl("zz"), StoreUrl("demo") \o <<"/">>}
    \cup {<<"/", "favicon.ico">>}

\* _content (suite_server.py 763-772) of a request without a body is "".
EmptyBody == [json |-> "malformed", items |-> <<>>]
Bodies ==
    {EmptyBody,
     [json |-> "non_object", items |-> <<>>],
     [json |-> "object", items |-> <<Item(RelX, <<Null, 1>>)>>],
     [json |-> "object", items |-> <<ItemNotADict(RelX)>>]}

InstrumentedText == <<"instrumented source">>

\* What the attempts of one instrumented_src call meet: k failures of one
\* kind, then always the same answer.
FailThen(fail, k, get) ==
    [i \in 1 .. MAX_CONNECT_ATTEMPTS |-> IF i <= k THEN fail ELSE get]
Gets ==
    {FailThen(Refused, k, get) :
        k \in {0, MAX_CONNECT_ATTEMPTS - 1, MAX_CONNECT_ATTEMPTS},
        get \in {Answer(200, TRUE, InstrumentedText),
                 Answer(200, FALSE, InstrumentedText),
                 Answer(404, TRUE, <<>>)}}
    \cup {FailThen(Answer(500, TRUE, <<>>), 1, Answer(200, TRUE, InstrumentedText))}
NoGets == FailThen(Refused, MAX_CONNECT_ATTEMPTS, Refused)

PostPaths ==
    {SuiteUrl("demo"), IncludeUrl("demo", RelX), RunnerUrl("jasmine.js"),
     StoreUrl("demo"), StoreUrl("zz"), StoreUrl("demo") \o <<"/">>}

Request(method, path, body, gets) ==
    [method |-> method, path |-> path, body |-> body, gets |-> gets]

\* The URLs of the source files of the suites.
SrcUrls ==
    {p \in RequestPaths :
        /\ IncludeRegex(p).matched
        /\ IsSrcFile(IncludeRegex(p).groups[1], IncludeRegex(p).groups[2])}

\* A request: GET of any path, POST of some paths without a body, POST of a
\* store path with any body.  What JSCover does is drawn for the GETs of a
\* source file of a suite.
Requests ==
    {Request("GET", p, EmptyBody, NoGets) : p \in RequestPaths \ SrcUrls}
    \cup {Request("GET", p, EmptyBody, gets) : p \in SrcUrls, gets \in Gets}
    \cup {Request("POST", p, EmptyBody, NoGets) : p \in PostPaths}
    \cup {Request("POST", p, body, NoGets) :
            p \in {q \in PostPaths : StoreCoverageRegex(q).matched}, body \in Bodies}

\* SuitePageServer.__init__ (suite_server.py 56-80), with or without a
\* coverage tool path, over some disk.
InitServer ==
    /\ CovInit
    /\ ThreadsUnused
    /\ CtorUnused
    /\ InstrUnused
    /\ jscover_path \in {"None", "jscover.jar"}
    /\ coverage_data = "None"
    /\ suite_name_set = {}
    /\ expected_src = {}
    /\ src_instr_dict = EmptyDict
    /\ start = [pc |-> "constructed", pending |-> {}, launched |-> {}]
    /\ disk \in Disks
    /\ request = NoRequest
    /\ response = NoAnswer

\* suite_server.py 86-94 and 115-116: the serving thread is started and,
\* with a tool path, the coverage store is created.
ServerStart ==
    /\ start.pc = "constructed"
    /\ IF jscover_path # "None"
       THEN /\ coverage_data' = "CoverageData"
            /\ start' = [pc |-> "starting", pending |-> DOMAIN desc_dict, launched |-> {}]
            /\ UNCHANGED src_instr_dict
       ELSE /\ src_instr_dict' = EmptyDict
            /\ start' = [pc |-> "started", pending |-> {}, launched |-> {}]
            /\ UNCHANGED coverage_data
    /\ UNCHANGED <<covVars, thrVars, jscover_path, suite_name_set, expected_src,
                   disk, request, response, waitVars,
                   ctorVars, instrVars, moreVars>>

\* suite_server.py 101-102
AnnounceNoSrcs(expected, root_dir, src_paths) == expected

RECURSIVE AnnounceSrcs(_, _, _)
AnnounceSrcs(expected, root_dir, src_paths) ==
    IF src_paths = <<>> THEN expected
    ELSE AnnounceSrcs(AddExpectedSrc(expected, root_dir, Head(src_paths)),
                      root_dir, Tail(src_paths))

\* suite_server.py 97-113, one round of the loop, instr.start() returning.
StartSuiteOk(suite_name) ==
    /\ start.pc = "starting"
    /\ suite_name \in start.pending
    /\ expected_src' = AnnounceSrcs(expected_src, desc_dict[suite_name].root_dir,
                                    desc_dict[suite_name].src_paths)
    /\ src_instr_dict' =
          [n \in DOMAIN src_instr_dict \cup {suite_name} |->
              IF n = suite_name
              THEN [root_dir |-> desc_dict[suite_name].root_dir, tool_path |-> jscover_path,
                    jscover |-> "Popen"]
              ELSE src_instr_dict[n]]
    /\ start' = [pc |-> IF start.pending = {suite_name} THEN "started" ELSE "starting",
                 pending |-> start.pending \ {suite_name},
                 launched |-> start.launched \cup {suite_name}]
    /\ UNCHANGED <<covVars, thrVars, jscover_path, coverage_data, suite_name_set,
                   disk, request, response, waitVars,
                   ctorVars, instrVars, moreVars>>

\* suite_server.py 97-110, one round of the loop, instr.start() raising
\* SrcInstrumenterError (coverage.py 84-90), which leaves start().
StartSuiteFails(suite_name) ==
    /\ start.pc = "starting"
    /\ suite_name \in start.pending
    /\ expected_src' = AnnounceSrcs(expected_src, desc_dict[suite_name].root_dir,
                                    desc_dict[suite_name].src_paths)
    /\ start' = [pc |-> "failed", pending |-> start.pending,
                 launched |-> start.launched \cup {suite_name}]
    /\ UNCHANGED <<covVars, thrVars, jscover_path, coverage_data, suite_name_set,
                   src_instr_dict, disk, request, response, waitVars,
                   ctorVars, instrVars, moreVars>>

\* The request is answered: what the server keeps of it.
Answered(req, handlers, answer) ==
    /\ request' = req
    /\ response' = [status |-> answer.status, content |-> answer.content,
                    mime_type |-> answer.mime_type, raised |-> answer.raised,
                    log |-> answer.log, handlers |-> handlers,
                    instr_names |-> DOMAIN src_instr_dict]
    /\ src_dict' = answer.srv.src_dict
    /\ merged' = answer.srv.merged
    /\ last_dict' = answer.srv.last_dict
    /\ suite_name_set' = answer.srv.suite_name_set

ServerNow ==
    [src_dict |-> src_dict, merged |-> merged, last_dict |-> last_dict,
     suite_name_set |-> suite_name_set,
     instr_names |-> DOMAIN src_instr_dict, disk |-> disk]

\* SuitePageRequestHandler (suite_server.py 672-746) for one request.  The
\* serving thread runs from the moment start() is called.
HandleRequest(requests) ==
    /\ start.pc # "constructed"
    /\ \E req \in requests :
          Answered(req, PageHandlers(DOMAIN src_instr_dict),
                   HandleRequestFrom(PageHandlers(DOMAIN src_instr_dict),
                                     ServerNow, req, <<>>))
    /\ UNCHANGED <<thrVars, jscover_path, coverage_data, expected_src,
                   src_instr_dict, start, disk, waitVars,
                   ctorVars, instrVars, moreVars>>

Init == InitServer /\ WaitUnused /\ MoreUnused

Next ==
    \/ ServerStart
    \/ \E suite_name \in DOMAIN desc_dict : StartSuiteOk(suite_name)
    \/ \E suite_name \in DOMAIN desc_dict : StartSuiteFails(suite_name)
    \/ HandleRequest(Requests)

Spec == Init /\ [][Next]_vars

\* ------------------------------------------------------------------------
\* Properties of the dispatch
\* ------------------------------------------------------------------------

\* C8: for every request, the handlers are asked in chain order; the first
\* one that gives a result (anything but None, as _handle_request tests it)
\* decides the response, which is then 200 with that result; a handler that
\* declines does not stop the later ones from being asked, no handler is
\* asked after the one that gave a result, and the response is 404 exactly
\* when no handler gave a result.
C8_FirstResultDecides ==
    request # NoRequest =>
        LET log == response.log
            handlers == response.handlers
        IN /\ Len(log) <= Len(handlers)
           /\ \A i \in 1 .. Len(log) : log[i].handler = handlers[i]
           /\ \A i \in 1 .. (Len(log) - 1) : log[i].content = None
           /\ (\A i \in 1 .. Len(log) : log[i].content = None) => Len(log) = Len(handlers)
           /\ (\E i \in 1 .. Len(log) : log[i].content # None)
                 => /\ response.status = 200
                    /\ response.content = log[Len(log)].content
           /\ (response.status = 404) <=> (\A i \in 1 .. Len(log) : log[i].content = None)

\* C9: a GET of /suite/{name}/include/{path} for a path among the suite's
\* source paths whose file is on disk is answered 200, with the
\* instrumenter's output when the suite has an instrumenter and
\* instrumented_src returns, and with the content of the file otherwise.
C9_SourceFileAlwaysServed ==
    \A name \in DOMAIN desc_dict :
        \A i \in 1 .. Len(desc_dict[name].src_paths) :
            LET rel_path == desc_dict[name].src_paths[i]
                full_path == PathJoin(desc_dict[name].root_dir, rel_path)
            IN (/\ request.method = "GET"
                /\ request.path \in {IncludeUrl(name, rel_path),
                                     IncludeUrl(name, rel_path) \o Query}
                /\ full_path \in DOMAIN disk)
               => /\ response.status = 200
                  /\ response.content =
                        IF /\ name \in response.instr_names
                           /\ InstrumentedSrc(request.gets).raised = "none"
                        THEN InstrumentedSrc(request.gets).value
                        ELSE disk[full_path]

SuiteNamesAsked == {"demo", "b", "zz"}
RelPathsAsked == {RelX, RelY, LibJq, SpecT, FixF, NotListed}

\* The lib, src, spec and fixture paths a suite declares.
DeclaredPaths(name) ==
    {desc_dict[name].lib_paths[i] : i \in 1 .. Len(desc_dict[name].lib_paths)}
    \cup {desc_dict[name].src_paths[i] : i \in 1 .. Len(desc_dict[name].src_paths)}
    \cup {desc_dict[name].spec_paths[i] : i \in 1 .. Len(desc_dict[name].spec_paths)}
    \cup {desc_dict[name].fixture_paths[i] : i \in 1 .. Len(desc_dict[name].fixture_paths)}

\* C10: a GET of /suite/{name} for a name that is no configured suite is
\* answered 404, and so is a GET of /suite/{name}/include/{path} when the
\* suite is not configured or the path is not among the suite's lib, src,
\* spec and fixture paths, whether or not a file is on disk at that path and
\* whether or not the server collects coverage.
C10_UnknownOrUnlistedIs404 ==
    request.method = "GET" =>
        /\ \A name \in SuiteNamesAsked \ DOMAIN desc_dict :
              request.path \in {SuiteUrl(name), SuiteUrl(name) \o <<"/">>,
                                SuiteUrl(name) \o Query}
                 => response.status = 404
        /\ \A name \in SuiteNamesAsked, rel_path \in RelPathsAsked :
              (/\ request.path \in {IncludeUrl(name, rel_path),
                                    IncludeUrl(name, rel_path) \o Query}
               /\ \/ name \notin DOMAIN desc_dict
                  \/ rel_path \notin DeclaredPaths(name))
                 => response.status = 404

\* C10 witness: with instrumenters registered, a file that is on disk under
\* the root of suite demo but not declared by it was asked for and refused.
C10_Witness ==
    /\ request.method = "GET"
    /\ request.path = IncludeUrl("demo", NotListed)
    /\ PathJoin(RootR, NotListed) \in DOMAIN disk
    /\ response.instr_names = DOMAIN desc_dict
    /\ response.status = 404

\* C20: when start() has returned on a server with a tool path, the
\* instrumenter map has an entry for exactly the configured suite names, each
\* a started instrumenter of that tool rooted at the suite's root directory,
\* and every source path of every suite is among the expected sources; on a
\* server without a tool path the map is empty and no instrumenter was
\* started.
C20_OneStartedInstrumenterPerSuite ==
    start.pc = "started" =>
        IF jscover_path # "None"
        THEN /\ DOMAIN src_instr_dict = DOMAIN desc_dict
             /\ \A name \in DOMAIN desc_dict :
                   /\ src_instr_dict[name].root_dir = desc_dict[name].root_dir
                   /\ src_instr_dict[name].tool_path = jscover_path
                   /\ src_instr_dict[name].jscover # "None"
                   /\ \A i \in 1 .. Len(desc_dict[name].src_paths) :
                         PathJoin(desc_dict[name].root_dir, desc_dict[name].src_paths[i])
                            \in expected_src
        ELSE /\ src_instr_dict = EmptyDict
             /\ start.launched = {}

\* C20 witness: start() has returned on a server with a tool path.
C20_Witness ==
    /\ start.pc = "started"
    /\ jscover_path # "None"
    /\ start.launched = DOMAIN desc_dict

\* A POST of /jscoverage-store/{name} reached StoreCoveragePageHandler, which
\* is in the chain once an instrumenter is registered.
StorePost(req, handlers) ==
    /\ req.method = "POST"
    /\ StoreCoverageRegex(req.path).matched
    /\ InSeq("StoreCoveragePageHandler", handlers)

StoreSuiteName(req) == StoreCoverageRegex(req.path).groups[1]

\* C11: when the server collects coverage, a POST of /jscoverage-store/{name}
\* is answered 200, text/plain, "Success: coverage data received" when the
\* name is a configured suite and the body is a JSON object, and 404 when
\* the body is no JSON, is JSON but no object, or the name is no configured
\* suite; in no case does an exception leave the handler.
C11_StorePostAnswers ==
    (request # NoRequest /\ StorePost(request, response.handlers)) =>
        /\ response.raised = "none"
        /\ IF HasDesc(StoreSuiteName(request)) /\ request.body.json = "object"
           THEN /\ response.status = 200
                /\ response.mime_type = "text/plain"
                /\ response.content = SuccessMessage
           ELSE response.status = 404

\* C12: a POST of /jscoverage-store/{name} that is answered 404 leaves the
\* set of reported suites and the coverage map as they were.
C12_RefusedPostChangesNothing ==
    [][(/\ request' # NoRequest
        /\ StorePost(request', response'.handlers)
        /\ response'.status = 404)
       => (suite_name_set' = suite_name_set /\ src_dict' = src_dict)]_vars

\* ------------------------------------------------------------------------
\* SpecWait: a thread calls all_coverage_data while the server is started
\* and coverage reports come in.  Time is counted in units of
\* COVERAGE_WAIT_TIME (0.1 s).
\* ------------------------------------------------------------------------

COVERAGE_TIMEOUT == 20
COVERAGE_WAIT_TIME == 1

\* The latest time at which all_coverage_data is called.
MaxStart == 1
\* The clock stops here: every call has timed out by then.
MaxTime == MaxStart + COVERAGE_TIMEOUT + 1

\* suite_server.py 158: self.coverage_data is not None
CollectsCoverageAlways(data) == TRUE
CollectsCoverage(data) == data # "None"

\* suite_server.py 184-196: the sorted lists are equal.
HasAllCoverage(names) == SuiteNameList(names) = DescKeys

\* suite_server.py 178
TimedOutAtDeadline(time, start_time) == time - start_time >= COVERAGE_TIMEOUT
TimedOut(time, start_time) == time - start_time > COVERAGE_TIMEOUT

\* The coverage reports that come in: one with an object for suite demo, one
\* without a body for suite b, and one for a suite the server does not know.
WaitRequests ==
    {Request("POST", StoreUrl("demo"), [json |-> "object", items |-> <<Item(RelX, <<1>>)>>], NoGets),
     Request("POST", StoreUrl("b"), EmptyBody, NoGets),
     Request("POST", StoreUrl("zz"), EmptyBody, NoGets)}

IdleWaiter ==
    [pc |-> "idle", start_time |-> 0, wake_at |-> 0, result |-> "none",
     polled |-> FALSE, slept |-> FALSE, saw_all |-> FALSE]

InitWait ==
    /\ InitServer
    /\ PathX \in DOMAIN disk
    /\ disk[PathX] = FileText(PathX)
    /\ waiter = IdleWaiter
    /\ now = 0
    /\ MoreUnused

\* suite_server.py 148-163 and 172: the call, up to the first test of the loop.
CallAllCoverageData ==
    /\ waiter.pc \in {"idle", "returned", "raised"}
    /\ now <= MaxStart
    /\ waiter' = IF CollectsCoverage(coverage_data)
                 THEN [IdleWaiter EXCEPT !.pc = "poll", !.start_time = now]
                 ELSE [IdleWaiter EXCEPT !.pc = "returned", !.result = "None"]
    /\ UNCHANGED <<covVars, thrVars, srvVars, now,
                   ctorVars, instrVars, moreVars>>

\* suite_server.py 175 and 160: success_func() is called; when it is true
\* the store is returned.  saw_all is history: some poll of this call, made
\* before the deadline passed, found every configured suite among the names.
Poll ==
    /\ waiter.pc = "poll"
    /\ waiter' = [waiter EXCEPT
                    !.polled = TRUE,
                    !.saw_all = @ \/ (/\ DescKeys \subseteq suite_name_set
                                      /\ now - waiter.start_time <= COVERAGE_TIMEOUT),
                    !.pc = IF HasAllCoverage(suite_name_set) THEN "returned" ELSE "timecheck",
                    !.result = IF HasAllCoverage(suite_name_set) THEN "CoverageData" ELSE @]
    /\ UNCHANGED <<covVars, thrVars, srvVars, now,
                   ctorVars, instrVars, moreVars>>

\* suite_server.py 178-182: raise TimeoutError, or go to sleep.
TimeCheck ==
    /\ waiter.pc = "timecheck"
    /\ waiter' = IF TimedOut(now, waiter.start_time)
                 THEN [waiter EXCEPT !.pc = "raised", !.result = "TimeoutError"]
                 ELSE [waiter EXCEPT !.pc = "sleep", !.slept = TRUE,
                                     !.wake_at = now + COVERAGE_WAIT_TIME]
    /\ UNCHANGED <<covVars, thrVars, srvVars, now,
                   ctorVars, instrVars, moreVars>>

\* suite_server.py 182: time.sleep returns, no earlier than asked.
Wake ==
    /\ waiter.pc = "sleep"
    /\ now >= waiter.wake_at
    /\ waiter' = [waiter EXCEPT !.pc = "poll"]
    /\ UNCHANGED <<covVars, thrVars, srvVars, now,
                   ctorVars, instrVars, moreVars>>

\* Time passes.
Tick ==
    /\ now < MaxTime
    /\ now' = now + 1
    /\ UNCHANGED <<covVars, thrVars, srvVars, waiter,
                   ctorVars, instrVars, moreVars>>

WaiterStep == Poll \/ TimeCheck \/ Wake

NextWait ==
    \/ ServerStart
    \/ \E suite_name \in DOMAIN desc_dict : StartSuiteOk(suite_name)
    \/ \E suite_name \in DOMAIN desc_dict : StartSuiteFails(suite_name)
    \/ HandleRequest(WaitRequests)
    \/ CallAllCoverageData
    \/ WaiterStep
    \/ Tick

\* The waiting thread keeps running and time keeps passing; nothing makes a
\* browser send a report.
SpecWait == InitWait /\ [][NextWait]_vars /\ WF_vars(WaiterStep) /\ WF_vars(Tick)

\* ------------------------------------------------------------------------
\* Properties of the wait
\* ------------------------------------------------------------------------

\* C5: a call of all_coverage_data that, at one of its polls made before
\* the deadline passed, had every configured suite name among the reported
\* names does not raise TimeoutError.
C5_ReturnsWhenAllReported ==
    waiter.pc = "raised" => ~waiter.saw_all

Waiting == waiter.pc \in {"poll", "timecheck", "sleep"}
SuiteMissing == ~(DescKeys \subseteq suite_name_set)

\* C6: a call of all_coverage_data on a server that collects coverage raises
\* TimeoutError only when more than COVERAGE_TIMEOUT has passed since it
\* began, returns the store only when no configured suite is missing from
\* the reported names, and, while a configured suite is missing, ends by
\* raising TimeoutError.
C6_TimeoutWhenSuiteMissing ==
    /\ [](waiter.pc = "raised" => now - waiter.start_time > COVERAGE_TIMEOUT)
    /\ [](waiter.result = "CoverageData" => ~SuiteMissing)
    /\ (Waiting /\ SuiteMissing) ~> (waiter.pc = "raised" \/ ~SuiteMissing)

\* C6 witness: the call has raised TimeoutError after polling and sleeping,
\* one configured suite has reported and the other has not.
C6_Witness ==
    /\ waiter.pc = "raised"
    /\ waiter.polled /\ waiter.slept
    /\ suite_name_set = {<<"demo">>}

\* C7: on a server constructed without a coverage tool path, whatever was
\* done to it, all_coverage_data is never found polling, testing the time or
\* sleeping, never raises, and has returned None without a poll or a sleep.
C7_NoneAtOnceWithoutToolPath ==
    jscover_path = "None" =>
        /\ waiter.pc \in {"idle", "returned"}
        /\ waiter.pc = "returned"
              => (waiter.result = "None" /\ ~waiter.polled /\ ~waiter.slept)

\* C7 witness: the server was constructed without a tool path and started,
\* has answered a request, and all_coverage_data has returned None.
C7_Witness ==
    /\ jscover_path = "None"
    /\ start.pc = "started"
    /\ request # NoRequest
    /\ waiter.pc = "returned"
    /\ waiter.result = "None"

\* ------------------------------------------------------------------------
\* SpecConstruct: SuitePageServer(suite_desc_list, renderer, jscover_path),
\* then start() and the requests that come in
\* ------------------------------------------------------------------------

MaxSuites == 3
MaxHandlers == 2

\* A suite description: its name and its root directory.
SuiteDescs == {[suite_name |-> n, root_dir |-> r] : n \in {"demo", "b"}, r \in {RootR, RootQ}}

RECURSIVE LastNamed(_, _, _)
\* The last suite of the list, up to position i, with the given name.
LastNamed(list, name, i) ==
    IF list[i].suite_name = name THEN list[i] ELSE LastNamed(list, name, i - 1)

\* suite_server.py 207-210: the dict comprehension; a later suite replaces an
\* earlier one of the same name.
SuiteDict(list) ==
    [name \in {list[i].suite_name : i \in 1 .. Len(list)} |->
        LastNamed(list, name, Len(list))]

\* suite_server.py 213
HasRepeatedKeysOffByOne(suite_dict, list) ==
    Cardinality(DOMAIN suite_dict) + 1 < Len(list)

HasRepeatedKeys(suite_dict, list) ==
    Cardinality(DOMAIN suite_dict) < Len(list)

NotConstructed ==
    [pc |-> "called", raised |-> "none", desc_dict |-> EmptyDict, src_instr_dict |-> "unset",
     listener |-> "unbound", handlers |-> 0, instrumenters |-> 0]

InitConstruct ==
    /\ CovInit
    /\ ThreadsUnused
    /\ ServerUnused
    /\ WaitUnused
    /\ InstrUnused
    /\ MoreUnused
    /\ suite_desc_list \in SeqsUpTo(SuiteDescs, MaxSuites)
    /\ \E tool_path \in {"None", "jscover.jar"} :
          ctor = NotConstructed @@ [jscover_path |-> tool_path]

\* suite_server.py 70 and 198-216
SuiteDictFromList ==
    /\ ctor.pc = "called"
    /\ ctor' = IF HasRepeatedKeys(SuiteDict(suite_desc_list), suite_desc_list)
               THEN [ctor EXCEPT !.pc = "raised", !.raised = "DuplicateSuiteNameError"]
               ELSE [ctor EXCEPT !.pc = "dict", !.desc_dict = SuiteDict(suite_desc_list)]
    /\ UNCHANGED <<covVars, thrVars, srvVars, waitVars, suite_desc_list, instrVars, moreVars>>

\* suite_server.py 71-76
StoreDependencies ==
    /\ ctor.pc = "dict"
    /\ ctor' = [ctor EXCEPT !.pc = "stored", !.src_instr_dict = "empty"]
    /\ UNCHANGED <<covVars, thrVars, srvVars, waitVars, suite_desc_list, instrVars, moreVars>>

\* suite_server.py 79-80: HTTPServer.__init__ binds the listener.
BindListener ==
    /\ ctor.pc = "stored"
    /\ ctor' = [ctor EXCEPT !.pc = "constructed", !.listener = "bound"]
    /\ UNCHANGED <<covVars, thrVars, srvVars, waitVars, suite_desc_list, instrVars, moreVars>>

\* suite_server.py 82-116: start() of the constructed server creates one
\* instrumenter for each suite of the map when there is a tool path.
StartConstructed ==
    /\ ctor.pc = "constructed"
    /\ ctor' = [ctor EXCEPT
                  !.pc = "serving",
                  !.instrumenters = IF ctor.jscover_path # "None"
                                    THEN Cardinality(DOMAIN ctor.desc_dict) ELSE 0]
    /\ UNCHANGED <<covVars, thrVars, srvVars, waitVars, suite_desc_list, instrVars, moreVars>>

\* suite_server.py 672-703: the serving thread constructs a request handler,
\* and with it the page handlers, for a request.
ConstructHandler ==
    /\ ctor.pc = "serving"
    /\ ctor.handlers < MaxHandlers
    /\ ctor' = [ctor EXCEPT !.handlers = @ + 1]
    /\ UNCHANGED <<covVars, thrVars, srvVars, waitVars, suite_desc_list, instrVars, moreVars>>

NextConstruct ==
    \/ SuiteDictFromList
    \/ StoreDependencies
    \/ BindListener
    \/ StartConstructed
    \/ ConstructHandler

SpecConstruct == InitConstruct /\ [][NextConstruct]_vars

HasDuplicateName(list) ==
    \E i, j \in 1 .. Len(list) : i < j /\ list[i].suite_name = list[j].suite_name

\* C13: once the constructor has looked at the suite list, a list in which
\* two suites have the same name has made it raise DuplicateSuiteNameError,
\* with the listener not bound and no handler or instrumenter created, then
\* or later; for a list without duplicates it has not raised and the suite
\* map has exactly one entry for each suite of the list, under its name.
C13_DuplicateNamesRejected ==
    ctor.pc # "called" =>
        IF HasDuplicateName(suite_desc_list)
        THEN /\ ctor.pc = "raised"
             /\ ctor.raised = "DuplicateSuiteNameError"
             /\ ctor.listener = "unbound"
             /\ ctor.handlers = 0
             /\ ctor.instrumenters = 0
        ELSE /\ ctor.pc # "raised"
             /\ Cardinality(DOMAIN ctor.desc_dict) = Len(suite_desc_list)
             /\ \A i \in 1 .. Len(suite_desc_list) :
                   /\ suite_desc_list[i].suite_name \in DOMAIN ctor.desc_dict
                   /\ ctor.desc_dict[suite_desc_list[i].suite_name] = suite_desc_list[i]

\* C13 witness: a list of three suites, the first and the last of the same
\* name, has made the constructor raise.
C13_Witness ==
    /\ Len(suite_desc_list) = 3
    /\ suite_desc_list[1].suite_name = suite_desc_list[3].suite_name
    /\ suite_desc_list[1].suite_name # suite_desc_list[2].suite_name
    /\ ctor.pc = "raised"

\* ------------------------------------------------------------------------
\* SpecInstr: one SrcInstrumenter, on which one thread calls start(),
\* instrumented_src(rel_path) and stop(), one call after the other
\* (coverage.py 25-249)
\* ------------------------------------------------------------------------

MAX_START_ATTEMPTS == 10

\* The ports random.randint draws from (coverage.py 179 draws from
\* 10000..40000).
MaxPorts == 11
Ports == 1 .. MaxPorts

Least(S) == CHOOSE x \in S : \A y \in S : x <= y
Greatest(S) == CHOOSE x \in S : \A y \in S : x >= y

\* coverage.py 171-189: a port that no instrumenter has used.  Which of the
\* unused ports the draw gives is left open between the least and the
\* greatest of them.
RandomUnusedPort(used) ==
    IF Ports \ used = {} THEN {}
    ELSE {Least(Ports \ used), Greatest(Ports \ used)}

\* coverage.py 77: start() does something only when there is no process handle.
StartNeededAlways(i) == TRUE

StartNeeded(i) == i.jscover = "None"

\* coverage.py 83: the errors start() does not retry on.
NoFailFastErrors == {}

StartFailFastErrors == {"OSError"}

\* coverage.py 163-165
OutOfAttemptsLate(num_attempts, max_attempts) == num_attempts > max_attempts

OutOfAttempts(num_attempts, max_attempts) == num_attempts >= max_attempts

\* What requests.get does on one attempt of instrumented_src.
GetOutcomes ==
    {Refused, Answer(200, TRUE, InstrumentedText), Answer(200, FALSE, InstrumentedText),
     Answer(404, TRUE, <<>>)}

\* The part of instr that describes the call in progress or the last call.
NewCall(name, i) ==
    [call |-> name, num_attempts |-> 0, outcome |-> "pending", value |-> None,
     started |-> FALSE, was_running |-> i.jscover # "None",
     was_terminated |-> i.process = "terminated", terminate_calls |-> 0,
     got_from |-> {},
     launches |-> 0, sleeps |-> 0, gets |-> 0, first200 |-> None]

\* SrcInstrumenter.__init__ (coverage.py 44-65); the java binary is on the
\* machine or it is not.
InitInstr ==
    /\ CovInit
    /\ ThreadsUnused
    /\ ServerUnused
    /\ WaitUnused
    /\ CtorUnused
    /\ MoreUnused
    /\ used_ports = {}
    /\ \E java \in {"found", "missing"} :
          instr = [java |-> java, port_num |-> Null, jscover |-> "None",
                   process |-> "none", pc |-> "idle"]
                  @@ [NewCall("none", [jscover |-> "None", process |-> "none"]) EXCEPT !.outcome = "returned"]

Entered(i, name, pc) == [(NewCall(name, i) @@ i) EXCEPT !.pc = pc]

\* coverage.py 67-94: start() is called.
CallStart ==
    /\ instr.pc = "idle"
    /\ instr' = IF StartNeeded(instr)
                THEN [Entered(instr, "start", "start_try") EXCEPT !.started = TRUE]
                ELSE [Entered(instr, "start", "idle") EXCEPT !.outcome = "returned"]
    /\ UNCHANGED <<covVars, thrVars, srvVars, waitVars, ctorVars, used_ports, moreVars>>

\* The exception leaves _retry (coverage.py 160 or 165) and start() raises
\* SrcInstrumenterError (84-90); a lazy start() is outside the try of
\* instrumented_src (121), which the error leaves as well.
StartRaises(i) ==
    [i EXCEPT !.pc = "idle", !.outcome = "SrcInstrumenterError"]

\* coverage.py 153-168, an exception of try_func in start().
StartAttemptFails(i, error) ==
    IF error \in StartFailFastErrors THEN StartRaises(i)
    ELSE IF OutOfAttempts(i.num_attempts + 1, MAX_START_ATTEMPTS)
    THEN StartRaises([i EXCEPT !.num_attempts = @ + 1])
    ELSE [i EXCEPT !.num_attempts = @ + 1, !.pc = "start_sleep"]

\* coverage.py 205-213: a port is drawn and Popen raises OSError.
LaunchNotFound ==
    /\ instr.pc = "start_try"
    /\ instr.java = "missing"
    /\ \E port_num \in RandomUnusedPort(used_ports) :
          /\ used_ports' = used_ports \cup {port_num}
          /\ instr' = StartAttemptFails([instr EXCEPT !.launches = @ + 1], "OSError")
    /\ UNCHANGED <<covVars, thrVars, srvVars, waitVars, ctorVars, moreVars>>

\* coverage.py 205-226: the process has exited when it is polled.
LaunchExits ==
    /\ instr.pc = "start_try"
    /\ instr.java = "found"
    /\ \E port_num \in RandomUnusedPort(used_ports) :
          /\ used_ports' = used_ports \cup {port_num}
          /\ instr' = StartAttemptFails([instr EXCEPT !.launches = @ + 1],
                                        "SrcInstrumenterError")
    /\ UNCHANGED <<covVars, thrVars, srvVars, waitVars, ctorVars, moreVars>>

\* coverage.py 205-229 and 80-83: the process runs; start() keeps the port
\* and the handle, and a lazy start() is followed by the GETs.
LaunchRuns ==
    /\ instr.pc = "start_try"
    /\ instr.java = "found"
    /\ \E port_num \in RandomUnusedPort(used_ports) :
          /\ used_ports' = used_ports \cup {port_num}
          /\ instr' = [instr EXCEPT
                          !.launches = @ + 1,
                          !.port_num = port_num,
                          !.jscover = "Popen",
                          !.process = "running",
                          !.num_attempts = 0,
                          !.pc = IF instr.call = "start" THEN "idle" ELSE "get_try",
                          !.outcome = IF instr.call = "start" THEN "returned" ELSE "pending"]
    /\ UNCHANGED <<covVars, thrVars, srvVars, waitVars, ctorVars, moreVars>>

\* coverage.py 168, in start()
StartSleep ==
    /\ instr.pc = "start_sleep"
    /\ instr' = [instr EXCEPT !.sleeps = @ + 1, !.pc = "start_try"]
    /\ UNCHANGED <<covVars, thrVars, srvVars, waitVars, ctorVars, used_ports, moreVars>>

\* coverage.py 108-124: instrumented_src(rel_path) is called; it calls
\* start() when there is no process handle.
CallInstrumentedSrc ==
    /\ instr.pc = "idle"
    /\ instr' = IF instr.jscover = "None"
                THEN [Entered(instr, "instrumented_src", "start_try") EXCEPT !.started = TRUE]
                ELSE Entered(instr, "instrumented_src", "get_try")
    /\ UNCHANGED <<covVars, thrVars, srvVars, waitVars, ctorVars, used_ports, moreVars>>

\* history: the body of the first response of the call with status 200
First200(first200, get) ==
    IF first200 = None /\ get.kind = "answer" /\ get.status_code = 200
    THEN get.text ELSE first200

\* coverage.py 126-130: what leaves instrumented_src when _retry raises.
InstrumentedSrcRaises(i, outcome) ==
    [i EXCEPT !.pc = "idle",
              !.outcome = ConnectionErrorAsSrcInstrumenterError(outcome).raised]

\* coverage.py 148-168 around _get_src_from_jscover: the call returns, or
\* the exception is counted and, attempts left, followed by a sleep.
AfterGet(i, outcome) ==
    IF outcome.raised = "none"
    THEN [i EXCEPT !.pc = "idle", !.outcome = "returned", !.value = outcome.value]
    ELSE IF OutOfAttempts(i.num_attempts + 1, MAX_CONNECT_ATTEMPTS)
    THEN InstrumentedSrcRaises([i EXCEPT !.num_attempts = @ + 1], outcome)
    ELSE [i EXCEPT !.num_attempts = @ + 1, !.pc = "get_sleep"]

\* coverage.py 240-249: one GET to the port of the instrumenter.
GetFromJscover ==
    /\ instr.pc = "get_try"
    /\ \E get \in GetOutcomes :
          instr' = AfterGet([instr EXCEPT !.gets = @ + 1,
                                          !.got_from = @ \cup {instr.port_num},
                                          !.first200 = First200(@, get)],
                            GetSrcFromJscover(get))
    /\ UNCHANGED <<covVars, thrVars, srvVars, waitVars, ctorVars, used_ports, moreVars>>

\* coverage.py 168, in instrumented_src
GetSleep ==
    /\ instr.pc = "get_sleep"
    /\ instr' = [instr EXCEPT !.sleeps = @ + 1, !.pc = "get_try"]
    /\ UNCHANGED <<covVars, thrVars, srvVars, waitVars, ctorVars, used_ports, moreVars>>

\* coverage.py 102
StopTerminatesNever(i) == FALSE

StopTerminates(i) == i.jscover # "None"

\* stop() forgets the process handle.
HandleCleared(i) == "None"

\* coverage.py 96-106: stop() assigns nothing to self._jscover.
HandleAfterStop(i) == i.jscover

\* coverage.py 96-106: stop() terminates the process of the handle, if there
\* is a handle; the handle is kept.
CallStop ==
    /\ instr.pc = "idle"
    /\ instr' = [Entered(instr, "stop", "idle") EXCEPT
                    !.outcome = "returned",
                    !.jscover = HandleAfterStop(instr),
                    !.terminate_calls = IF StopTerminates(instr) THEN 1 ELSE 0,
                    !.process = IF StopTerminates(instr) THEN "terminated" ELSE @]
    /\ UNCHANGED <<covVars, thrVars, srvVars, waitVars, ctorVars, used_ports, moreVars>>

NextInstr ==
    \/ CallStart
    \/ LaunchNotFound
    \/ LaunchExits
    \/ LaunchRuns
    \/ StartSleep
    \/ CallInstrumentedSrc
    \/ GetFromJscover
    \/ GetSleep
    \/ CallStop

SpecInstr == InitInstr /\ [][NextInstr]_vars

\* ------------------------------------------------------------------------
\* Properties of the instrumenter
\* ------------------------------------------------------------------------

\* C14: a start() call on an instrumenter that a start() has set running
\* returns at once: it launches nothing, leases no port, and leaves the port
\* number, the process handle and the process as they were.
C14_StartIdempotentWhileRunning ==
    [][(/\ instr.pc = "idle"
        /\ instr.jscover # "None"
        /\ instr.process = "running"
        /\ instr'.call = "start")
       => /\ instr'.pc = "idle"
          /\ instr'.outcome = "returned"
          /\ instr'.launches = 0
          /\ used_ports' = used_ports
          /\ instr'.port_num = instr.port_num
          /\ instr'.jscover = instr.jscover
          /\ instr'.process = instr.process]_vars

\* C14 witness: start() was called on a running instrumenter and has returned.
C14_Witness ==
    /\ instr.call = "start"
    /\ instr.pc = "idle"
    /\ instr.was_running
    /\ instr.process = "running"
    /\ instr.launches = 0

\* C15: a start() call launches at most MAX_START_ATTEMPTS processes; every
\* launch is on a port no launch has used, and a launch after the first comes
\* after one sleep each; a launch whose process has exited is followed by the
\* sleep that precedes the next launch as long as attempts are left, and
\* when the last attempt's process has exited too, start() raises
\* SrcInstrumenterError and the instrumenter has no process handle and no port.
C15_StartRetriesThenFails ==
    /\ [](instr.pc # "unused" => instr.launches <= MAX_START_ATTEMPTS)
    /\ [](instr.pc = "start_try" => instr.sleeps = instr.launches)
    /\ [][instr'.launches = instr.launches + 1
          => /\ \E port_num \in Ports \ used_ports :
                   used_ports' = used_ports \cup {port_num}
             /\ instr'.jscover # "None" => instr'.port_num \notin used_ports]_vars
    /\ [][(/\ instr'.launches = instr.launches + 1
           /\ instr.java = "found"
           /\ instr'.jscover = "None")
          => IF instr'.launches < MAX_START_ATTEMPTS
             THEN instr'.pc = "start_sleep"
             ELSE /\ instr'.pc = "idle"
                  /\ instr'.outcome = "SrcInstrumenterError"
                  /\ instr'.port_num = Null
                  /\ instr'.process = "none"]_vars
    /\ [][instr.pc = "start_sleep"
          => (instr'.pc = "start_try" /\ instr'.sleeps = instr.sleeps + 1)]_vars

\* C15 witness: start() has raised after MAX_START_ATTEMPTS launches that
\* all exited.
C15_Witness ==
    /\ instr.call = "start"
    /\ instr.pc = "idle"
    /\ instr.outcome = "SrcInstrumenterError"
    /\ instr.launches = MAX_START_ATTEMPTS
    /\ instr.sleeps = MAX_START_ATTEMPTS - 1
    /\ instr.jscover = "None"

\* C16: when the binary is missing, a call that tried to launch it has made
\* exactly one attempt and no sleep, has raised SrcInstrumenterError, and
\* the instrumenter has no process handle and no port.
C16_MissingBinaryFailsAtOnce ==
    (instr.pc # "unused" /\ instr.java = "missing" /\ instr.launches > 0) =>
        /\ instr.pc = "idle"
        /\ instr.outcome = "SrcInstrumenterError"
        /\ instr.launches = 1
        /\ instr.sleeps = 0
        /\ instr.jscover = "None"
        /\ instr.port_num = Null
        /\ instr.process = "none"

\* C16 witness: start() has failed on a missing binary.
C16_Witness ==
    /\ instr.call = "start"
    /\ instr.java = "missing"
    /\ instr.launches = 1
    /\ instr.outcome = "SrcInstrumenterError"

\* The sleeps of a call up to its n-th launch.
SleepsOfStart(launches) == IF launches > 0 THEN launches - 1 ELSE 0

\* C17: an instrumented_src call calls start() exactly when there is no
\* process handle, makes its GETs only with a handle, at most
\* MAX_CONNECT_ATTEMPTS of them and with one sleep between two, and returns
\* the body of the first response with status 200: once such a response has
\* come the call has returned its body, and it returns nothing else.
C17_LazyStartThenGets ==
    (instr.pc # "unused" /\ instr.call = "instrumented_src") =>
        /\ instr.started = ~instr.was_running
        /\ instr.gets > 0 => instr.jscover # "None"
        /\ instr.gets <= MAX_CONNECT_ATTEMPTS
        /\ instr.pc = "get_try" => instr.sleeps = SleepsOfStart(instr.launches) + instr.gets
        /\ instr.first200 # None
              => (instr.pc = "idle" /\ instr.outcome = "returned"
                  /\ instr.value = instr.first200)
        /\ instr.outcome = "returned" => instr.value = instr.first200

\* C18: an instrumented_src call that has not returned a body has raised
\* SrcInstrumenterError, and a call returns a body only from a response with
\* status 200.
C18_FailureIsSrcInstrumenterError ==
    (instr.pc = "idle" /\ instr.call = "instrumented_src") =>
        /\ instr.outcome \in {"returned", "SrcInstrumenterError"}
        /\ instr.outcome = "returned" => instr.first200 # None

\* C19: stop() on a running instrumenter terminates its process; stop() on
\* an instrumenter without a process handle (never started, or start()
\* failed) returns without raising and leaves the port number, the handle,
\* the process and the leased ports as they were.
C19_StopIsSafe ==
    [][(instr.pc = "idle" /\ instr'.call = "stop")
       => /\ instr'.outcome = "returned"
          /\ instr'.pc = "idle"
          /\ instr.process = "running" => instr'.process = "terminated"
          /\ instr.jscover = "None"
                => /\ instr'.process = "none"
                   /\ instr'.jscover = "None"
                   /\ instr'.port_num = instr.port_num
                   /\ used_ports' = used_ports]_vars

\* C19 witness: stop() was called after a start() that failed, and returned.
C19_Witness ==
    /\ instr.call = "stop"
    /\ instr.pc = "idle"
    /\ ~instr.was_running
    /\ used_ports # {}
    /\ instr.process = "none"

\* ------------------------------------------------------------------------
\* SpecStop: the driving thread calls start() and then stop() on the server
\* (suite_server.py 82-129)
\* ------------------------------------------------------------------------

\* The listener of a constructed server accepts connections (the socket is
\* bound and listening, suite_server.py 79-80); nothing is stopped.
NotStopping ==
    [pc |-> "idle", todo |-> {}, stopped |-> {}, listener |-> "accepting",
     socket |-> "open"]

InitStop ==
    /\ InitServer
    /\ WaitUnused
    /\ ConnUnused /\ RetryUnused /\ LeaseUnused /\ PostUnused
    /\ stop = NotStopping
    /\ LaterUnused

\* The driving thread is in start() or has not called stop() yet.
StartBeforeStop ==
    /\ stop.pc = "idle"
    /\ \/ ServerStart
       \/ \E suite_name \in DOMAIN desc_dict : StartSuiteOk(suite_name)
       \/ \E suite_name \in DOMAIN desc_dict : StartSuiteFails(suite_name)

\* suite_server.py 118-124: stop() is called, start() having returned or
\* raised, or not having been called.
CallServerStop ==
    /\ stop.pc = "idle"
    /\ start.pc \in {"constructed", "started", "failed"}
    /\ stop' = [stop EXCEPT !.pc = "stopping", !.todo = DOMAIN src_instr_dict]
    /\ UNCHANGED <<covVars, thrVars, srvVars, waitVars, ctorVars, instrVars,
                   conn, retry, lease, used_ports_list, post,
                   processes, suite>>

\* suite_server.py 124-125: one round of the loop over src_instr_dict.values()
StopInstrumenter(suite_name) ==
    /\ stop.pc = "stopping"
    /\ suite_name \in stop.todo
    /\ stop' = [stop EXCEPT !.todo = @ \ {suite_name}, !.stopped = @ \cup {suite_name}]
    /\ UNCHANGED <<covVars, thrVars, srvVars, waitVars, ctorVars, instrVars,
                   conn, retry, lease, used_ports_list, post,
                   processes, suite>>

\* suite_server.py 124: the loop is over.
LoopIsOverAlways(s) == TRUE

LoopIsOver(s) == s.todo = {}

\* suite_server.py 128: shutdown() returns when the serving thread has left
\* serve_forever; without a serving thread (start() not called) it blocks.
Shutdown ==
    /\ stop.pc = "stopping"
    /\ LoopIsOver(stop)
    /\ start.pc # "constructed"
    /\ stop' = [stop EXCEPT !.pc = "shut down", !.listener = "shut down"]
    /\ UNCHANGED <<covVars, thrVars, srvVars, waitVars, ctorVars, instrVars,
                   conn, retry, lease, used_ports_list, post,
                   processes, suite>>

\* suite_server.py 129
SocketClose ==
    /\ stop.pc = "shut down"
    /\ stop' = [stop EXCEPT !.pc = "returned", !.socket = "closed"]
    /\ UNCHANGED <<covVars, thrVars, srvVars, waitVars, ctorVars, instrVars,
                   conn, retry, lease, used_ports_list, post,
                   processes, suite>>

\* The serving thread answers a request as long as it is in serve_forever.
ServeBeforeShutdown ==
    /\ stop.listener = "accepting"
    /\ HandleRequest({Request("GET", SuiteUrl("demo"), EmptyBody, NoGets),
                      Request("GET", IncludeUrl("demo", RelX), EmptyBody, NoGets)})

NextStop ==
    \/ StartBeforeStop
    \/ CallServerStop
    \/ \E suite_name \in DOMAIN desc_dict : StopInstrumenter(suite_name)
    \/ Shutdown
    \/ SocketClose
    \/ ServeBeforeShutdown

SpecStop == InitStop /\ [][NextStop]_vars

\* C21: the listener is shut down, and its socket closed, only when stop()
\* has stopped every instrumenter of the instrumenter map, and the socket is
\* closed only after the listener is shut down; when stop() has returned no
\* instrumenter of the map is left that it did not stop.
C21_InstrumentersStoppedFirst ==
    /\ (stop.listener = "shut down" \/ stop.socket = "closed")
          => stop.stopped = DOMAIN src_instr_dict
    /\ stop.socket = "closed" => stop.listener = "shut down"
    /\ stop.pc = "returned"
          => /\ stop.stopped = DOMAIN src_instr_dict
             /\ stop.listener = "shut down"
             /\ stop.socket = "closed"

\* C21 witness: stop() has returned on a server with an instrumenter for
\* each suite.
C21_Witness ==
    /\ stop.pc = "returned"
    /\ DOMAIN src_instr_dict = DOMAIN desc_dict
    /\ stop.stopped = DOMAIN desc_dict

\* ------------------------------------------------------------------------
\* SpecServe: two clients connect to the server; the serving thread runs
\* serve_forever of a plain HTTPServer (suite_server.py 35, 86-88), which
\* handles a request to its end before it accepts the next connection.
\* ------------------------------------------------------------------------

Conns == {"c1", "c2"}

NoConn == [pc |-> "closed", kind |-> "none", num_attempts |-> 0]

InitServe ==
    /\ CovInit
    /\ ThreadsUnused
    /\ ServerUnused
    /\ WaitUnused
    /\ CtorUnused
    /\ InstrUnused
    /\ StopUnused /\ RetryUnused /\ LeaseUnused /\ PostUnused
    /\ conn = [c \in Conns |-> NoConn]
    /\ LaterUnused

\* The thread that handles requests is busy with a connection.
BusyWith(c) == conn[c].pc \in {"handling", "sleeping"}

\* SocketServer.BaseServer.serve_forever, as HTTPServer inherits it: the
\* serving thread takes the next connection when it has finished the last.
ServingThreadFree(c) == \A d \in Conns \ {c} : ~BusyWith(d)

\* A client connects and sends a GET of a source file ("src") or a coverage
\* POST ("post"); the connection waits in the backlog of the listener.
Connect(c) ==
    /\ conn[c].pc = "closed"
    /\ \E kind \in {"src", "post"} :
          conn' = [conn EXCEPT ![c] = [pc |-> "queued", kind |-> kind, num_attempts |-> 0]]
    /\ UNCHANGED <<covVars, thrVars, srvVars, waitVars, ctorVars, instrVars,
                   stop, retry, lease, used_ports_list, post,
                   processes, suite>>

\* The connection is accepted and SuitePageRequestHandler constructed for it
\* (suite_server.py 672-703), which handles the request.
BeginHandle(c) ==
    /\ conn[c].pc = "queued"
    /\ ServingThreadFree(c)
    /\ conn' = [conn EXCEPT ![c].pc = "handling"]
    /\ UNCHANGED <<covVars, thrVars, srvVars, waitVars, ctorVars, instrVars,
                   stop, retry, lease, used_ports_list, post,
                   processes, suite>>

\* coverage.py 148-168 under instrumented_src: an attempt to get the source
\* from JSCover fails; attempts left, the handler sleeps, otherwise the
\* request is answered from the file (suite_server.py 561-564).
SrcAttemptFails(c) ==
    /\ conn[c].pc = "handling"
    /\ conn[c].kind = "src"
    /\ conn' = [conn EXCEPT
                  ![c].num_attempts = @ + 1,
                  ![c].pc = IF OutOfAttempts(conn[c].num_attempts + 1, MAX_CONNECT_ATTEMPTS)
                            THEN "answered" ELSE "sleeping"]
    /\ UNCHANGED <<covVars, thrVars, srvVars, waitVars, ctorVars, instrVars,
                   stop, retry, lease, used_ports_list, post,
                   processes, suite>>

\* coverage.py 168: the sleep is over.
SrcWakes(c) ==
    /\ conn[c].pc = "sleeping"
    /\ conn' = [conn EXCEPT ![c].pc = "handling"]
    /\ UNCHANGED <<covVars, thrVars, srvVars, waitVars, ctorVars, instrVars,
                   stop, retry, lease, used_ports_list, post,
                   processes, suite>>

\* The request is answered: the source has come from JSCover, or the
\* coverage POST is handled (suite_server.py 726-746).
AnswerConn(c) ==
    /\ conn[c].pc = "handling"
    /\ conn' = [conn EXCEPT ![c].pc = "answered"]
    /\ UNCHANGED <<covVars, thrVars, srvVars, waitVars, ctorVars, instrVars,
                   stop, retry, lease, used_ports_list, post,
                   processes, suite>>

\* The client closes the connection it got its answer on.
CloseConn(c) ==
    /\ conn[c].pc = "answered"
    /\ conn' = [conn EXCEPT ![c] = NoConn]
    /\ UNCHANGED <<covVars, thrVars, srvVars, waitVars, ctorVars, instrVars,
                   stop, retry, lease, used_ports_list, post,
                   processes, suite>>

NextServe ==
    \E c \in Conns :
        \/ Connect(c)
        \/ BeginHandle(c)
        \/ SrcAttemptFails(c)
        \/ SrcWakes(c)
        \/ AnswerConn(c)
        \/ CloseConn(c)

SpecServe == InitServe /\ [][NextServe]_vars

\* C23: a request that has come in is never kept waiting by another
\* request: whatever the server is doing for the other connections, also
\* sleeping in the connect-retry loop for one of them, the handling of a
\* waiting request can begin.
C23_RequestsHandledConcurrently ==
    \A c \in Conns : conn[c].pc = "queued" => ENABLED BeginHandle(c)

\* ------------------------------------------------------------------------
\* What a reader of the store sees while load_from_dict runs (SpecThreads)
\* ------------------------------------------------------------------------

\* coverage.py 370-377: coverage_for_src returns the stored dict object
\* itself, so the reader sees its lines as they are at the moment.
ReaderView(p) == heap[shared_dict[p]]

\* Every line of the caller's cover_dict is in the view, covered where the
\* caller reports it covered (coverage.py 351-356 run to the end).
WholeMerge(t, view) ==
    \A n \in DOMAIN heap[t] : n \in DOMAIN view /\ (heap[t][n] => view[n])

\* C24: while one caller alone merges the report of a POST into the entry
\* stored for lib/x.js, a reader of the store sees that entry either as it
\* was before the call or with every line of the report merged.
C24_ReaderSeesWholeMerges ==
    \A t \in Callers :
        (/\ \A u \in Callers \ {t} : thr[u].pc = "idle"
         /\ thr[t].pc \in {"read", "write", "done"}
         /\ thr[t].existing_dict = StoredObject)
        => \/ ReaderView(PathX) \in {LineMap(<<0>>), LineMap(<<0, 0>>)}
           \/ WholeMerge(t, ReaderView(PathX))

\* ------------------------------------------------------------------------
\* The chain of handlers and the methods they take (Spec)
\* ------------------------------------------------------------------------

\* Where a handler stands in a chain (0: not in it).
PlaceIn(chain, handler) ==
    IF \E i \in DOMAIN chain : chain[i] = handler
    THEN CHOOSE i \in DOMAIN chain : chain[i] = handler
    ELSE 0

TimesIn(chain, handler) == Cardinality({i \in DOMAIN chain : chain[i] = handler})

\* C25: the chain built for a request has the dependency handler once, as
\* its last handler, with or without coverage; when instrumenters are
\* registered (the server collects coverage) the chain has the handler of
\* instrumented sources, and that one stands before the dependency handler.
C25_InstrumentedBeforeDependency ==
    request # NoRequest
    => /\ response.handlers # <<>>
       /\ response.handlers[Len(response.handlers)] = "DependencyPageHandler"
       /\ TimesIn(response.handlers, "DependencyPageHandler") = 1
       /\ response.instr_names # {}
          => /\ TimesIn(response.handlers, "InstrumentedSrcPageHandler") = 1
             /\ PlaceIn(response.handlers, "InstrumentedSrcPageHandler")
                  < PlaceIn(response.handlers, "DependencyPageHandler")

\* A source file was asked for while instrumenters were registered, the
\* handler of instrumented sources declined and the dependency handler
\* answered.
C25_Witness ==
    /\ request # NoRequest
    /\ response.instr_names # {}
    /\ response.status = 200
    /\ \E i, j \in DOMAIN response.log :
          /\ i < j
          /\ response.log[i].handler = "InstrumentedSrcPageHandler"
          /\ response.log[i].loaded
          /\ response.log[j].handler = "DependencyPageHandler"
          /\ response.log[j].loaded

\* The request's method is outside the whitelist of the handler whose
\* pattern its path matches.
OutsideWhitelist(req) ==
    \/ /\ req.method = "POST"
       /\ \/ SuitePageRegex(req.path).matched
          \/ RunnerRegex(req.path).matched
          \/ IncludeRegex(req.path).matched
    \/ /\ req.method = "GET"
       /\ StoreCoverageRegex(req.path).matched

\* No handler was asked to load for a method it does not take.
LoadsWithinWhitelist ==
    request # NoRequest
    => \A i \in DOMAIN response.log :
          response.log[i].loaded
          => request.method \in HTTP_METHODS(response.log[i].handler)

\* C28: load_page is never called for a request whose method is outside the
\* handler's HTTP_METHODS; a POST to a suite, runner or include URL and a
\* GET of a coverage-store URL are answered 404 with no handler having
\* loaded, and the step that handles such a GET leaves the coverage store
\* (the merged coverage and the suites that reported) as it was.
C28_MethodWhitelist ==
    /\ [](LoadsWithinWhitelist
          /\ ((request # NoRequest /\ OutsideWhitelist(request))
              => /\ response.status = 404
                 /\ \A i \in DOMAIN response.log : ~response.log[i].loaded))
    /\ [][(request'.method = "GET" /\ StoreCoverageRegex(request'.path).matched)
          => UNCHANGED <<src_dict, suite_name_set>>]_vars

\* A GET of the coverage-store URL of a suite was refused by the handler
\* that stores coverage, and a suite had reported before.
C28_Witness ==
    /\ request # NoRequest
    /\ request.method = "GET"
    /\ request.path = StoreUrl("demo")
    /\ response.status = 404
    /\ suite_name_set # {}
    /\ \E i \in DOMAIN response.log :
          /\ response.log[i].handler = "StoreCoveragePageHandler"
          /\ ~response.log[i].loaded

\* ------------------------------------------------------------------------
\* SpecRetry: SrcInstrumenter._retry (coverage.py 132-168) by itself, over
\* any try_func: each invocation returns a value or raises an exception.
\* ------------------------------------------------------------------------

MaxAttempts == 3

\* Exceptions try_func raises, and the classes a caller can list.  OSError
\* and IOError are subclasses of EnvironmentError.
RaisedErrors == {"OSError", "IOError", "ValueError"}
ReturnValues == {"a", "b"}

IsInstance(ex, exception_class) ==
    \/ ex = exception_class
    \/ exception_class = "EnvironmentError" /\ ex \in {"OSError", "IOError"}

\* fail_fast_errors: None (the default) or a list of classes.
NoneGiven == [given |-> FALSE, classes |-> {}]
FailFastLists ==
    {NoneGiven}
    \cup {[given |-> TRUE, classes |-> cs] :
            cs \in {{}, {"OSError"}, {"EnvironmentError"}, {"ValueError", "IOError"}}}

\* No exception fails fast.
IsFailFastNever(ex, fail_fast_errors) == FALSE

\* coverage.py 156-160
IsFailFast(ex, fail_fast_errors) ==
    /\ fail_fast_errors.given
    /\ \E exception_class \in fail_fast_errors.classes : IsInstance(ex, exception_class)

RetryIdle ==
    [pc |-> "idle", max_attempts |-> 0, fail_fast_errors |-> NoneGiven,
     num_attempts |-> 0, calls |-> <<>>, sleeps |-> 0, result |-> <<>>]

InitRetry ==
    /\ CovInit
    /\ ThreadsUnused
    /\ ServerUnused
    /\ WaitUnused
    /\ CtorUnused
    /\ InstrUnused
    /\ StopUnused /\ ConnUnused /\ LeaseUnused /\ PostUnused
    /\ retry = RetryIdle
    /\ LaterUnused

\* coverage.py 132-145: _retry is called; num_attempts = 0.
CallRetry ==
    /\ retry.pc = "idle"
    /\ \E max_attempts \in 1 .. MaxAttempts, fail_fast_errors \in FailFastLists :
          retry' = [RetryIdle EXCEPT !.pc = "try",
                                     !.max_attempts = max_attempts,
                                     !.fail_fast_errors = fail_fast_errors]
    /\ UNCHANGED <<covVars, thrVars, srvVars, waitVars, ctorVars, instrVars,
                   stop, conn, lease, used_ports_list, post,
                   processes, suite>>

\* coverage.py 150-151: return try_func()
TryReturns ==
    /\ retry.pc = "try"
    /\ \E value \in ReturnValues :
          retry' = [retry EXCEPT !.calls = Append(@, <<"returned", value>>),
                                 !.pc = "returned",
                                 !.result = <<"returned", value>>]
    /\ UNCHANGED <<covVars, thrVars, srvVars, waitVars, ctorVars, instrVars,
                   stop, conn, lease, used_ports_list, post,
                   processes, suite>>

\* coverage.py 153-165: try_func raises; the exception is raised again when
\* it fails fast or when the attempts are used up.
TryRaises ==
    /\ retry.pc = "try"
    /\ \E ex \in RaisedErrors :
          retry' =
            IF IsFailFast(ex, retry.fail_fast_errors)
            THEN [retry EXCEPT !.calls = Append(@, <<"raised", ex>>),
                               !.pc = "raised",
                               !.result = <<"raised", ex>>]
            ELSE IF OutOfAttempts(retry.num_attempts + 1, retry.max_attempts)
            THEN [retry EXCEPT !.calls = Append(@, <<"raised", ex>>),
                               !.num_attempts = @ + 1,
                               !.pc = "raised",
                               !.result = <<"raised", ex>>]
            ELSE [retry EXCEPT !.calls = Append(@, <<"raised", ex>>),
                               !.num_attempts = @ + 1,
                               !.pc = "sleep"]
    /\ UNCHANGED <<covVars, thrVars, srvVars, waitVars, ctorVars, instrVars,
                   stop, conn, lease, used_ports_list, post,
                   processes, suite>>

\* coverage.py 168: time.sleep(self.WAIT_BETWEEN_ATTEMPTS), then the loop.
RetrySleeps ==
    /\ retry.pc = "sleep"
    /\ retry' = [retry EXCEPT !.sleeps = @ + 1, !.pc = "try"]
    /\ UNCHANGED <<covVars, thrVars, srvVars, waitVars, ctorVars, instrVars,
                   stop, conn, lease, used_ports_list, post,
                   processes, suite>>

\* The caller has the result or the exception and calls _retry again.
RetryAgain ==
    /\ retry.pc \in {"returned", "raised"}
    /\ retry' = RetryIdle
    /\ UNCHANGED <<covVars, thrVars, srvVars, waitVars, ctorVars, instrVars,
                   stop, conn, lease, used_ports_list, post,
                   processes, suite>>

NextRetry ==
    \/ CallRetry
    \/ TryReturns
    \/ TryRaises
    \/ RetrySleeps
    \/ RetryAgain

SpecRetry == InitRetry /\ [][NextRetry]_vars

\* The exception's type is one of the listed classes.
TypeListed(call, fail_fast_errors) ==
    /\ call[1] = "raised"
    /\ fail_fast_errors.given
    /\ call[2] \in fail_fast_errors.classes

\* C26: _retry invokes try_func at most max_attempts times; it returns the
\* result of the first invocation that does not raise; when every
\* invocation raised and none of the exceptions fails fast, there were
\* exactly max_attempts invocations and max_attempts - 1 sleeps and the last
\* exception is raised again; an exception whose type is listed in
\* fail_fast_errors is raised again at once: it is the last invocation and
\* no sleep follows it.
C26_RetryPolicy ==
    LET n == Len(retry.calls) IN
    /\ n <= retry.max_attempts
    /\ retry.sleeps <= n
    /\ retry.pc = "returned"
       => /\ n >= 1
          /\ retry.calls[n][1] = "returned"
          /\ retry.result = retry.calls[n]
          /\ \A i \in 1 .. n - 1 : retry.calls[i][1] = "raised"
          /\ retry.sleeps = n - 1
    /\ (/\ retry.pc = "raised"
        /\ \A i \in 1 .. n : ~IsFailFast(retry.calls[i][2], retry.fail_fast_errors))
       => /\ n = retry.max_attempts
          /\ retry.sleeps = retry.max_attempts - 1
          /\ \A i \in 1 .. n : retry.calls[i][1] = "raised"
          /\ retry.result = retry.calls[n]
    /\ \A i \in 1 .. n :
          TypeListed(retry.calls[i], retry.fail_fast_errors)
          => /\ i = n
             /\ retry.pc = "raised"
             /\ retry.result = retry.calls[i]
             /\ retry.sleeps = i - 1

\* Every attempt raised an exception that does not fail fast, with more
\* than one attempt allowed and a list of fail-fast classes given.
C26_Witness ==
    /\ retry.pc = "raised"
    /\ retry.max_attempts = MaxAttempts
    /\ Len(retry.calls) = MaxAttempts
    /\ retry.sleeps = MaxAttempts - 1
    /\ retry.fail_fast_errors.classes # {}

\* ------------------------------------------------------------------------
\* SpecPorts: _random_unused_port (coverage.py 170-189) called from two
\* threads, each starting instrumenters; used_ports is a list of the class
\* (coverage.py 41-42) and the method takes no lock.
\* ------------------------------------------------------------------------

\* The ports random.randint gives, and how many leases the registry takes.
MaxDrawn == 3
MaxLeases == 3
DrawnPorts == 1 .. MaxDrawn

LeaseThreads == {"t1", "t2"}

NoPort == 0
NoLease == [pc |-> "idle", port_num |-> NoPort]

InList(port_num, list) == \E i \in DOMAIN list : list[i] = port_num

InitPorts ==
    /\ CovInit
    /\ ThreadsUnused
    /\ ServerUnused
    /\ WaitUnused
    /\ CtorUnused
    /\ InstrUnused
    /\ StopUnused /\ ConnUnused /\ RetryUnused /\ PostUnused
    /\ lease = [t \in LeaseThreads |-> NoLease]
    /\ used_ports_list = <<>>
    /\ LaterUnused

\* coverage.py 177-178: port_num = None, so the loop is entered.
LeaseCall(t) ==
    /\ lease[t].pc = "idle"
    /\ Len(used_ports_list) < MaxLeases
    /\ lease' = [lease EXCEPT ![t] = [pc |-> "draw", port_num |-> NoPort]]
    /\ UNCHANGED <<covVars, thrVars, srvVars, waitVars, ctorVars, instrVars,
                   stop, conn, retry, used_ports_list, post,
                   processes, suite>>

\* coverage.py 179: port_num = random.randint(10000, 40000)
LeaseDraw(t) ==
    /\ lease[t].pc = "draw"
    /\ \E port_num \in DrawnPorts :
          lease' = [lease EXCEPT ![t] = [pc |-> "test", port_num |-> port_num]]
    /\ UNCHANGED <<covVars, thrVars, srvVars, waitVars, ctorVars, instrVars,
                   stop, conn, retry, used_ports_list, post,
                   processes, suite>>

\* coverage.py 178: while ... port_num in cls.used_ports
LeaseTest(t) ==
    /\ lease[t].pc = "test"
    /\ lease' = [lease EXCEPT ![t].pc =
                    IF InList(lease[t].port_num, used_ports_list) THEN "draw" ELSE "append"]
    /\ UNCHANGED <<covVars, thrVars, srvVars, waitVars, ctorVars, instrVars,
                   stop, conn, retry, used_ports_list, post,
                   processes, suite>>

\* coverage.py 187-189: cls.used_ports.append(port_num); return port_num
LeaseAppend(t) ==
    /\ lease[t].pc = "append"
    /\ used_ports_list' = Append(used_ports_list, lease[t].port_num)
    /\ lease' = [lease EXCEPT ![t].pc = "returned"]
    /\ UNCHANGED <<covVars, thrVars, srvVars, waitVars, ctorVars, instrVars,
                   stop, conn, retry, post,
                   processes, suite>>

\* The thread goes on to another attempt or another instrumenter.
LeaseAgain(t) ==
    /\ lease[t].pc = "returned"
    /\ lease' = [lease EXCEPT ![t] = NoLease]
    /\ UNCHANGED <<covVars, thrVars, srvVars, waitVars, ctorVars, instrVars,
                   stop, conn, retry, used_ports_list, post,
                   processes, suite>>

NextPorts ==
    \E t \in LeaseThreads :
        \/ LeaseCall(t)
        \/ LeaseDraw(t)
        \/ LeaseTest(t)
        \/ LeaseAppend(t)
        \/ LeaseAgain(t)

SpecPorts == InitPorts /\ [][NextPorts]_vars

\* C27: the registry of used ports never holds a port twice, that is, no
\* call of _random_unused_port returns a port that another call, earlier or
\* at the same time on another thread, has returned.
C27_NoPortLeasedTwice ==
    \A i, j \in DOMAIN used_ports_list :
        i # j => used_ports_list[i] # used_ports_list[j]

\* ------------------------------------------------------------------------
\* SpecPaths: load_from_dict over reports keyed by any spelling of a path
\* (the keys come from the body of a POST, suite_server.py 643-653)
\* ------------------------------------------------------------------------

\* "//lib/x.js"
RelSlashSlashX == <<"/", "/", "lib", "/", "x.js">>

PathDicts ==
    {<<Item(r, ld)>> :
        r \in {RelX, RelSlashX, RelSlashSlashX, RelY}, ld \in SmallLineDatas}

InitPaths ==
    CovInit /\ ThreadsUnused /\ ServerUnused /\ WaitUnused /\ CtorUnused /\ InstrUnused
    /\ MoreUnused

\* coverage.py 280-361, called with root_dir /r.
CallLoadFromDictAnyPath ==
    /\ \E cover_dict \in PathDicts :
          /\ src_dict' = LoadFromDict(src_dict, RootR, cover_dict)
          /\ merged' = [lines |-> merged.lines \cup ReportedLines(RootR, cover_dict),
                        srcs |-> merged.srcs \cup ReportedSrcs(RootR, cover_dict)]
          /\ last_dict' = cover_dict
    /\ UNCHANGED <<thrVars, srvVars, waitVars, ctorVars, instrVars, moreVars>>

NextPaths == CallLoadFromDictAnyPath

SpecPaths == InitPaths /\ [][NextPaths]_vars

\* The path lies under the directory: the directory, a separator, and more.
LiesUnder(path, dir) ==
    /\ Len(path) > Len(dir) + 1
    /\ SubSeq(path, 1, Len(dir)) = dir
    /\ path[Len(dir) + 1] = SLASH

\* C29: every key of the coverage map lies under the root_dir the reports
\* were loaded with, and a report keyed by lib/x.js with or without a
\* leading separator is merged into the one entry root_dir/lib/x.js.
C29_KeysRelativeToRootDir ==
    /\ \A p \in DOMAIN src_dict : LiesUnder(p, RootR)
    /\ (/\ last_dict # NoCall
        /\ last_dict[1].rel_src \in {RelX, RelSlashX}
        /\ last_dict[1].lineData # <<>>)
       => PathX \in DOMAIN src_dict

\* ------------------------------------------------------------------------
\* SpecReport: the serving thread stores coverage reports, statement by
\* statement, while the driving thread waits in all_coverage_data
\* ------------------------------------------------------------------------

\* The reports the browsers POST: one for each configured suite.
ReportPosts ==
    {[suite_name |-> <<"demo">>,
      body |-> [json |-> "object", items |-> <<Item(RelX, <<1>>)>>]],
     [suite_name |-> <<"b">>,
      body |-> [json |-> "object", items |-> <<Item(RelY, <<1>>)>>]]}

NoPost == [pc |-> "idle", suite_name |-> <<>>, body |-> EmptyBody, counted |-> FALSE]

InitReport ==
    /\ InitServer
    /\ jscover_path # "None"
    /\ PathX \in DOMAIN disk
    /\ disk[PathX] = FileText(PathX)
    /\ waiter = IdleWaiter
    /\ now = 0
    /\ StopUnused /\ ConnUnused /\ RetryUnused /\ LeaseUnused
    /\ post = NoPost
    /\ LaterUnused

\* suite_server.py 632, in the handler of a POST to /jscoverage-store/:
\* add_suite_name(suite_name).  `counted` is history: the name was not among
\* the recorded names before.
PostRecordsSuite ==
    /\ post.pc = "idle"
    /\ start.pc # "constructed"
    /\ InSeq("StoreCoveragePageHandler", PageHandlers(DOMAIN src_instr_dict))
    /\ \E r \in ReportPosts :
          /\ suite_name_set' = AddSuiteName(suite_name_set, r.suite_name)
          /\ post' = [pc |-> "recorded", suite_name |-> r.suite_name, body |-> r.body,
                      counted |-> r.suite_name \notin suite_name_set]
    /\ UNCHANGED <<covVars, thrVars, jscover_path, coverage_data, expected_src,
                   src_instr_dict, start, disk, request, response, waitVars,
                   ctorVars, instrVars, stop, conn, retry, lease, used_ports_list,
                   processes, suite>>

\* What the rest of _store_coverage_data makes of the store.
StoreAfterPost(p) == StoreNamed(ServerNow, p.suite_name, p.body).srv

\* suite_server.py 634-662: the rest of the handler, with load_from_dict.
PostMerges ==
    /\ post.pc = "recorded"
    /\ src_dict' = StoreAfterPost(post).src_dict
    /\ merged' = StoreAfterPost(post).merged
    /\ last_dict' = StoreAfterPost(post).last_dict
    /\ post' = NoPost
    /\ UNCHANGED <<thrVars, srvVars, waitVars, ctorVars, instrVars,
                   stop, conn, retry, lease, used_ports_list,
                   processes, suite>>

NextReport ==
    \/ ServerStart
    \/ \E suite_name \in DOMAIN desc_dict : StartSuiteOk(suite_name)
    \/ \E suite_name \in DOMAIN desc_dict : StartSuiteFails(suite_name)
    \/ PostRecordsSuite
    \/ PostMerges
    \/ CallAllCoverageData
    \/ WaiterStep
    \/ Tick

SpecReport == InitReport /\ [][NextReport]_vars

\* A POST has made a suite count as reported and its payload is not in the
\* coverage map yet.
MergeOutstanding ==
    /\ post.pc = "recorded"
    /\ post.counted
    /\ StoreAfterPost(post).src_dict # src_dict

\* C30: at the step in which all_coverage_data finds every suite reported
\* and returns the store, no POST that made a suite count as reported has
\* its payload still to be merged into the coverage map.
C30_StoreReturnedAfterMerge ==
    [][(/\ waiter.pc = "poll"
        /\ waiter'.pc = "returned"
        /\ waiter'.result = "CoverageData")
       => ~MergeOutstanding]_vars

\* ------------------------------------------------------------------------
\* The names of the suites that reported (Spec)
\* ------------------------------------------------------------------------

\* C31: the suites recorded as having reported are all configured suites,
\* so that the test of _has_all_coverage, the recorded names being equal to
\* the configured names, is true exactly when every configured suite has
\* reported.
C31_ReportedNamesAreConfigured ==
    /\ suite_name_set \subseteq DescKeys
    /\ HasAllCoverage(suite_name_set) <=> (DescKeys \subseteq suite_name_set)

\* ------------------------------------------------------------------------
\* The instrumenter after stop() (SpecInstr)
\* ------------------------------------------------------------------------

\* C32: the process handle and the port number that a start() has set are
\* never changed afterwards.  On an instrumenter whose process stop() has
\* terminated, start() returns at once and launches nothing,
\* instrumented_src() goes to its GETs without a start() and sends them to
\* the port kept, and stop() calls terminate on the process again.
C32_HandleKeptAfterStop ==
    /\ [][instr.jscover # "None"
          => /\ instr'.jscover = instr.jscover
             /\ instr'.port_num = instr.port_num]_vars
    /\ [][(instr.pc = "idle" /\ instr.process = "terminated" /\ instr' # instr)
          => /\ instr'.process = "terminated"
             /\ used_ports' = used_ports
             /\ ~instr'.started
             /\ instr'.launches = 0
             /\ instr'.call = "start"
                   => (instr'.pc = "idle" /\ instr'.outcome = "returned")
             /\ instr'.call = "instrumented_src" => instr'.pc = "get_try"
             /\ instr'.call = "stop"
                   => (instr'.terminate_calls = 1 /\ instr'.outcome = "returned")]_vars
    /\ [](instr.was_terminated
          => /\ instr.launches = 0
             /\ instr.got_from \subseteq {instr.port_num}
             /\ instr.gets > 0 => instr.got_from = {instr.port_num})

\* stop() was called a second time and has called terminate again.
C32_Witness ==
    /\ instr.call = "stop"
    /\ instr.pc = "idle"
    /\ instr.was_terminated
    /\ instr.terminate_calls = 1
    /\ instr.jscover = "Popen"
    /\ instr.port_num # Null

\* ------------------------------------------------------------------------
\* SpecLife: the driving thread calls start() on the server, perhaps more
\* than once, and then stop(); the JSCover processes are followed
\* (suite_server.py 82-129, coverage.py 67-106)
\* ------------------------------------------------------------------------

MaxStarts == 2

\* The handle of the process the n-th start() launched for a suite.
ProcessOf(suite_name, n) == <<suite_name, n>>

InitLife ==
    /\ CovInit
    /\ ThreadsUnused
    /\ CtorUnused
    /\ InstrUnused
    /\ WaitUnused
    /\ jscover_path \in {"None", "jscover.jar"}
    /\ coverage_data = "None"
    /\ suite_name_set = {}
    /\ expected_src = {}
    /\ src_instr_dict = EmptyDict
    /\ start = [pc |-> "constructed", pending |-> {}, launched |-> {}, calls |-> 0]
    /\ disk \in Disks
    /\ request = NoRequest
    /\ response = NoAnswer
    /\ stop = NotStopping
    /\ ConnUnused /\ RetryUnused /\ LeaseUnused /\ PostUnused /\ SuiteUnused
    /\ processes = <<>>

\* suite_server.py 82-94 and 115-116: start() is called, on a new server or
\* on one that start() has returned from or raised on; with a tool path a
\* new coverage store is made, without one the instrumenter map is emptied.
LifeStart ==
    /\ stop.pc = "idle"
    /\ start.pc \in {"constructed", "started", "failed"}
    /\ start.calls < MaxStarts
    /\ IF jscover_path # "None"
       THEN /\ coverage_data' = "CoverageData"
            /\ src_dict' = EmptyDict
            /\ suite_name_set' = {}
            /\ expected_src' = {}
            /\ start' = [pc |-> "starting", pending |-> DOMAIN desc_dict,
                         launched |-> {}, calls |-> start.calls + 1]
            /\ UNCHANGED src_instr_dict
       ELSE /\ src_instr_dict' = EmptyDict
            /\ start' = [pc |-> "started", pending |-> {}, launched |-> {},
                         calls |-> start.calls + 1]
            /\ UNCHANGED <<coverage_data, src_dict, suite_name_set, expected_src>>
    /\ UNCHANGED <<merged, last_dict, thrVars, jscover_path, disk, request, response,
                   waitVars, ctorVars, instrVars,
                   stop, conn, retry, lease, used_ports_list, post, processes, suite>>

\* suite_server.py 97-113, one round of the loop: a new SrcInstrumenter,
\* whose start() launches a process and keeps its handle (coverage.py
\* 80-83), is put in the map under the name of the suite, in the place of
\* the instrumenter the map had under that name.
LifeSuiteOk(suite_name) ==
    /\ start.pc = "starting"
    /\ suite_name \in start.pending
    /\ expected_src' = AnnounceSrcs(expected_src, desc_dict[suite_name].root_dir,
                                    desc_dict[suite_name].src_paths)
    /\ processes' = (ProcessOf(suite_name, start.calls) :> "running") @@ processes
    /\ src_instr_dict' =
          [n \in DOMAIN src_instr_dict \cup {suite_name} |->
              IF n = suite_name
              THEN [root_dir |-> desc_dict[suite_name].root_dir, tool_path |-> jscover_path,
                    jscover |-> ProcessOf(suite_name, start.calls)]
              ELSE src_instr_dict[n]]
    /\ start' = [start EXCEPT
                    !.pc = IF start.pending = {suite_name} THEN "started" ELSE "starting",
                    !.pending = @ \ {suite_name},
                    !.launched = @ \cup {suite_name}]
    /\ UNCHANGED <<covVars, thrVars, jscover_path, coverage_data, suite_name_set,
                   disk, request, response, waitVars, ctorVars, instrVars,
                   stop, conn, retry, lease, used_ports_list, post, suite>>

\* suite_server.py 97-110, instr.start() raising SrcInstrumenterError
\* (coverage.py 84-90): no process is kept, and the error leaves start().
LifeSuiteFails(suite_name) ==
    /\ start.pc = "starting"
    /\ suite_name \in start.pending
    /\ expected_src' = AnnounceSrcs(expected_src, desc_dict[suite_name].root_dir,
                                    desc_dict[suite_name].src_paths)
    /\ start' = [start EXCEPT !.pc = "failed", !.launched = @ \cup {suite_name}]
    /\ UNCHANGED <<covVars, thrVars, jscover_path, coverage_data, suite_name_set,
                   src_instr_dict, disk, request, response, waitVars, ctorVars, instrVars,
                   stop, conn, retry, lease, used_ports_list, post, processes, suite>>

\* suite_server.py 118-124: stop() is called.
LifeStop ==
    /\ stop.pc = "idle"
    /\ start.pc \in {"constructed", "started", "failed"}
    /\ stop' = [stop EXCEPT !.pc = "stopping", !.todo = DOMAIN src_instr_dict]
    /\ UNCHANGED <<covVars, thrVars, srvVars, waitVars, ctorVars, instrVars,
                   conn, retry, lease, used_ports_list, post, processes, suite>>

\* suite_server.py 124-125 and coverage.py 101-102: instr.stop() terminates
\* the process of the instrumenter in the map.
LifeStopInstrumenter(suite_name) ==
    /\ stop.pc = "stopping"
    /\ suite_name \in stop.todo
    /\ processes' = [processes EXCEPT ![src_instr_dict[suite_name].jscover] = "terminated"]
    /\ stop' = [stop EXCEPT !.todo = @ \ {suite_name}, !.stopped = @ \cup {suite_name}]
    /\ UNCHANGED <<covVars, thrVars, srvVars, waitVars, ctorVars, instrVars,
                   conn, retry, lease, used_ports_list, post, suite>>

\* suite_server.py 128-129: shutdown() and socket.close(); shutdown()
\* blocks when no thread is in serve_forever.
LifeShutdown ==
    /\ stop.pc = "stopping"
    /\ LoopIsOver(stop)
    /\ start.pc # "constructed"
    /\ stop' = [stop EXCEPT !.pc = "returned", !.listener = "shut down",
                            !.socket = "closed"]
    /\ UNCHANGED <<covVars, thrVars, srvVars, waitVars, ctorVars, instrVars,
                   conn, retry, lease, used_ports_list, post, processes, suite>>

NextLife ==
    \/ LifeStart
    \/ \E suite_name \in DOMAIN desc_dict : LifeSuiteOk(suite_name)
    \/ \E suite_name \in DOMAIN desc_dict : LifeSuiteFails(suite_name)
    \/ LifeStop
    \/ \E suite_name \in DOMAIN desc_dict : LifeStopInstrumenter(suite_name)
    \/ LifeShutdown

SpecLife == InitLife /\ [][NextLife]_vars

\* C33: when stop() has returned, every JSCover process that a start() of
\* the server launched and kept has been terminated.
C33_NoProcessOutlivesServer ==
    stop.pc = "returned"
    => \A h \in DOMAIN processes : processes[h] = "terminated"

\* ------------------------------------------------------------------------
\* SpecInstrLive: the instrumenter of SpecInstr, the thread that calls it
\* never halting
\* ------------------------------------------------------------------------

\* The thread takes its next step whenever it has one.  In the loop of
\* _random_unused_port (coverage.py 178-179) it has a next state only when
\* some port is not in used_ports: a draw of a used port leaves everything
\* as it is, and with every port used no draw ends the loop.
SpecInstrLive == InitInstr /\ [][NextInstr]_vars /\ WF_vars(NextInstr)

InStart == instr.pc \in {"start_try", "start_sleep"}

\* C34: a start() that has begun its attempts gets out of them, running
\* or with SrcInstrumenterError, whatever ports the registry holds.
C34_StartTerminates == InStart ~> ~InStart

\* ------------------------------------------------------------------------
\* SpecSuite: a SuiteDescription is constructed from a description that
\* yaml.load has given, and asked which scripts go in the page
\* (suite.py 39-75, 154-191, 299-353)
\* ------------------------------------------------------------------------

\* What YAML gives for a key: nothing (None), a string, or a list.
YNone == [kind |-> "none", v |-> <<>>]
YStr(str) == [kind |-> "str", v |-> str]
YList(list) == [kind |-> "list", v |-> list]

\* suite.py 34 and 37
REQUIRED_KEYS == {"src_paths", "spec_paths", "test_runner"}
TEST_RUNNERS == {YStr(<<"jasmine">>)}

\* suite.py 334-336
MultiValuedKeys ==
    {"lib_paths", "src_paths", "spec_paths", "fixture_paths",
     "include_in_page", "exclude_from_page"}

\* The rules of the descriptions: regular expressions without operators,
\* which re.match finds at the start of a path.
RuleLib == <<"lib">>
RuleLibX == <<"lib", "/", "x.js">>
RuleSpec == <<"spec">>

Absent == [kind |-> "absent", v |-> <<>>]

SrcPathsValues ==
    {Absent, YNone, YStr(<<>>), YList(<<>>), YStr(<<"src">>), YList(<<YStr(<<"src">>)>>)}
SpecPathsValues == {Absent, YList(<<>>), YStr(<<"spec">>), YList(<<YStr(<<"spec">>)>>)}
TestRunnerValues ==
    {Absent, YStr(<<>>), YStr(<<"jasmine">>), YStr(<<"mocha">>),
     YList(<<YStr(<<"jasmine">>)>>)}
LibPathsValues == {Absent, YNone, YStr(<<"lib">>)}
IncludeValues ==
    {Absent, YNone, YStr(RuleLibX), YList(<<YStr(RuleSpec), YStr(RuleLibX)>>)}
ExcludeValues ==
    {Absent, YStr(RuleLib), YList(<<YStr(RuleLib), YStr(RuleSpec)>>)}

\* The dict of the keys that are there.
DictOf(all) == [k \in {j \in DOMAIN all : all[j] # Absent} |-> all[k]]

\* What yaml.load returns: a dict, or something else (None for an empty
\* file, a list for a description written as a list of dicts).
LoadedDescriptions ==
    {[is_dict |-> FALSE, d |-> <<>>]}
    \cup {[is_dict |-> TRUE,
           d |-> DictOf([src_paths |-> src, spec_paths |-> spec, test_runner |-> runner,
                         lib_paths |-> lib, include_in_page |-> inc,
                         exclude_from_page |-> exc])] :
            src \in SrcPathsValues, spec \in SpecPathsValues,
            runner \in TestRunnerValues, lib \in LibPathsValues,
            inc \in IncludeValues, exc \in ExcludeValues}

\* Any value counts as given.
TruthyAlways(value) == TRUE

\* suite.py 329: Python's truth of a value (not None, not "", not []).
Truthy(value) == value.kind # "none" /\ Len(value.v) > 0

\* suite.py 326-331
RequiredKeyMissing(d) ==
    \E key \in REQUIRED_KEYS : ~(key \in DOMAIN d /\ Truthy(d[key]))

\* suite.py 334-338
ConvertToLists(d) ==
    [k \in DOMAIN d |->
        IF k \in MultiValuedKeys /\ d[k].kind # "list" THEN YList(<<d[k]>>) ELSE d[k]]

\* suite.py 299-344: the exception raised ("none": no exception) and the
\* dict as the method leaves it.
ValidatedDescription(loaded) ==
    IF ~loaded.is_dict
    THEN [raised |-> "SuiteDescriptionError", desc_dict |-> <<>>]
    ELSE IF RequiredKeyMissing(loaded.d)
    THEN [raised |-> "SuiteDescriptionError", desc_dict |-> loaded.d]
    ELSE IF ConvertToLists(loaded.d)["test_runner"] \notin TEST_RUNNERS
    THEN [raised |-> "SuiteDescriptionError", desc_dict |-> ConvertToLists(loaded.d)]
    ELSE [raised |-> "none", desc_dict |-> ConvertToLists(loaded.d)]

\* suite.py 70-75: self._desc_dict.get(key, [])
RulesOf(d, key) == IF key \in DOMAIN d THEN d[key].v ELSE <<>>

\* re.compile raises TypeError for a rule that is no string.
CompileRaises(rules) == \E i \in DOMAIN rules : rules[i].kind # "str"
Compiled(rules) == [i \in DOMAIN rules |-> rules[i].v]

\* regex.match(script_path) is not None, for a rule without operators.
ReMatch(rule, script_path) ==
    /\ Len(rule) <= Len(script_path)
    /\ SubSeq(script_path, 1, Len(rule)) = rule

\* The exclude rules are asked first.
IncludeInPageExcludeFirst(include_regex_list, exclude_regex_list, script_path) ==
    IF \E i \in DOMAIN exclude_regex_list : ReMatch(exclude_regex_list[i], script_path)
    THEN FALSE
    ELSE TRUE

\* suite.py 154-175
IncludeInPage(include_regex_list, exclude_regex_list, script_path) ==
    IF \E i \in DOMAIN include_regex_list : ReMatch(include_regex_list[i], script_path)
    THEN TRUE
    ELSE IF \E i \in DOMAIN exclude_regex_list : ReMatch(exclude_regex_list[i], script_path)
    THEN FALSE
    ELSE TRUE

\* filter(func, paths)
RECURSIVE FilterInPage(_, _, _)
FilterInPage(include_regex_list, exclude_regex_list, paths) ==
    IF paths = <<>> THEN <<>>
    ELSE (IF IncludeInPage(include_regex_list, exclude_regex_list, Head(paths))
          THEN <<Head(paths)>> ELSE <<>>)
         \o FilterInPage(include_regex_list, exclude_regex_list, Tail(paths))

\* The scripts asked about, and the lists of JS files _file_paths finds.
ScriptPaths == {RelX, LibJq, SpecT, <<"src", "/", "a.js">>}
FoundPaths == {<<RelX, LibJq>>, <<SpecT>>, <<<<"src", "/", "a.js">>, RelX, SpecT>>}

NewSuite(loaded, is_dir) ==
    [pc |-> "new", loaded |-> loaded, is_dir |-> is_dir, desc_dict |-> <<>>,
     raised |-> "none", include_regex_list |-> <<>>, exclude_regex_list |-> <<>>,
     call |-> "none", arg |-> <<>>, only_in_page |-> FALSE, result |-> <<>>]

InitSuite ==
    /\ CovInit
    /\ ThreadsUnused
    /\ ServerUnused
    /\ WaitUnused
    /\ CtorUnused
    /\ InstrUnused
    /\ StopUnused /\ ConnUnused /\ RetryUnused /\ LeaseUnused /\ PostUnused
    /\ ProcessesUnused
    /\ \E loaded \in LoadedDescriptions, is_dir \in BOOLEAN :
          suite = NewSuite(loaded, is_dir)

\* suite.py 53-65: the description is loaded and validated.
ValidateDescription ==
    /\ suite.pc = "new"
    /\ suite' = [suite EXCEPT
                    !.desc_dict = ValidatedDescription(suite.loaded).desc_dict,
                    !.raised = ValidatedDescription(suite.loaded).raised,
                    !.pc = IF ValidatedDescription(suite.loaded).raised = "none"
                           THEN "validated" ELSE "raised"]
    /\ UNCHANGED <<covVars, thrVars, srvVars, waitVars, ctorVars, instrVars,
                   stop, conn, retry, lease, used_ports_list, post, processes>>

\* suite.py 67-68 and 346-353
ValidateRootDir ==
    /\ suite.pc = "validated"
    /\ suite' = IF suite.is_dir
                THEN [suite EXCEPT !.pc = "rooted"]
                ELSE [suite EXCEPT !.pc = "raised", !.raised = "SuiteDescriptionError"]
    /\ UNCHANGED <<covVars, thrVars, srvVars, waitVars, ctorVars, instrVars,
                   stop, conn, retry, lease, used_ports_list, post, processes>>

\* suite.py 70-75: the rules are compiled, and the object is constructed.
CompileRules ==
    /\ suite.pc = "rooted"
    /\ suite' =
          IF \/ CompileRaises(RulesOf(suite.desc_dict, "include_in_page"))
             \/ CompileRaises(RulesOf(suite.desc_dict, "exclude_from_page"))
          THEN [suite EXCEPT !.pc = "raised", !.raised = "TypeError"]
          ELSE [suite EXCEPT
                  !.pc = "constructed",
                  !.include_regex_list =
                      Compiled(RulesOf(suite.desc_dict, "include_in_page")),
                  !.exclude_regex_list =
                      Compiled(RulesOf(suite.desc_dict, "exclude_from_page"))]
    /\ UNCHANGED <<covVars, thrVars, srvVars, waitVars, ctorVars, instrVars,
                   stop, conn, retry, lease, used_ports_list, post, processes>>

\* suite.py 154-175: _include_in_page(script_path)
CallIncludeInPage ==
    /\ suite.pc = "constructed"
    /\ \E script_path \in ScriptPaths :
          suite' = [suite EXCEPT
                      !.call = "_include_in_page",
                      !.arg = <<script_path>>,
                      !.only_in_page = FALSE,
                      !.result = <<IncludeInPage(suite.include_regex_list,
                                                 suite.exclude_regex_list, script_path)>>]
    /\ UNCHANGED <<covVars, thrVars, srvVars, waitVars, ctorVars, instrVars,
                   stop, conn, retry, lease, used_ports_list, post, processes>>

\* suite.py 177-191: _js_paths, on the JS files that _file_paths has found.
CallJsPaths ==
    /\ suite.pc = "constructed"
    /\ \E paths \in FoundPaths, only_in_page \in BOOLEAN :
          suite' = [suite EXCEPT
                      !.call = "_js_paths",
                      !.arg = paths,
                      !.only_in_page = only_in_page,
                      !.result = IF only_in_page
                                 THEN FilterInPage(suite.include_regex_list,
                                                   suite.exclude_regex_list, paths)
                                 ELSE paths]
    /\ UNCHANGED <<covVars, thrVars, srvVars, waitVars, ctorVars, instrVars,
                   stop, conn, retry, lease, used_ports_list, post, processes>>

NextSuite ==
    \/ ValidateDescription
    \/ ValidateRootDir
    \/ CompileRules
    \/ CallIncludeInPage
    \/ CallJsPaths

SpecSuite == InitSuite /\ [][NextSuite]_vars

\* ------------------------------------------------------------------------
\* Properties of the suite description
\* ------------------------------------------------------------------------

\* The rules the loaded description gives under a key: one rule, or the
\* rules of a list.
RulesGiven(key) ==
    IF key \notin DOMAIN suite.loaded.d THEN {}
    ELSE IF suite.loaded.d[key].kind = "str" THEN {suite.loaded.d[key].v}
    ELSE {suite.loaded.d[key].v[i].v : i \in DOMAIN suite.loaded.d[key].v}

MatchesRule(key, script_path) == \E rule \in RulesGiven(key) : ReMatch(rule, script_path)

ShouldBeInPage(script_path) ==
    \/ MatchesRule("include_in_page", script_path)
    \/ ~MatchesRule("exclude_from_page", script_path)

\* C35: _include_in_page(path) is true when the path matches a rule of
\* include_in_page, also when it matches a rule of exclude_from_page as
\* well; false when it matches a rule of exclude_from_page and none of
\* include_in_page; true when it matches no rule.  _js_paths with
\* only_in_page keeps, in their order, the paths for which it is true.
C35_IncludeRulesWin ==
    /\ suite.call = "_include_in_page"
       => /\ MatchesRule("include_in_page", suite.arg[1]) => suite.result = <<TRUE>>
          /\ (/\ MatchesRule("exclude_from_page", suite.arg[1])
              /\ ~MatchesRule("include_in_page", suite.arg[1]))
             => suite.result = <<FALSE>>
          /\ (/\ ~MatchesRule("exclude_from_page", suite.arg[1])
              /\ ~MatchesRule("include_in_page", suite.arg[1]))
             => suite.result = <<TRUE>>
    /\ (suite.call = "_js_paths" /\ suite.only_in_page)
       => /\ \A path \in ScriptPaths :
                InSeq(path, suite.result)
                <=> (InSeq(path, suite.arg) /\ ShouldBeInPage(path))
          /\ \A i, j \in DOMAIN suite.result :
                i < j => \E k, l \in DOMAIN suite.arg :
                            /\ k < l
                            /\ suite.arg[k] = suite.result[i]
                            /\ suite.arg[l] = suite.result[j]
    /\ (suite.call = "_js_paths" /\ ~suite.only_in_page) => suite.result = suite.arg

\* C35 witness: lib/x.js matches a rule of each kind and is in the page.
C35_Witness ==
    /\ suite.call = "_include_in_page"
    /\ suite.arg = <<RelX>>
    /\ MatchesRule("include_in_page", RelX)
    /\ MatchesRule("exclude_from_page", RelX)
    /\ suite.result = <<TRUE>>

\* The key is not in the description, or what it holds is empty.
MissingOrEmpty(d, key) ==
    \/ key \notin DOMAIN d
    \/ d[key].kind = "none"
    \/ d[key].v = <<>>

Rejected(loaded) ==
    \/ ~loaded.is_dict
    \/ \E key \in {"src_paths", "spec_paths", "test_runner"} : MissingOrEmpty(loaded.d, key)
    \/ loaded.d["test_runner"] # YStr(<<"jasmine">>)

\* C36: the constructor raises SuiteDescriptionError when the loaded
\* description is no dictionary, when src_paths, spec_paths or test_runner
\* is missing or empty, and when test_runner is not a supported runner; a
\* description that is accepted has the keys it had, and a list under each
\* of its multi-valued keys.
C36_DescriptionValidated ==
    /\ (suite.pc \notin {"unused", "new"} /\ Rejected(suite.loaded))
       => /\ suite.pc = "raised"
          /\ suite.raised = "SuiteDescriptionError"
    /\ suite.pc \in {"validated", "rooted", "constructed"}
       => /\ DOMAIN suite.desc_dict = DOMAIN suite.loaded.d
          /\ \A key \in MultiValuedKeys \cap DOMAIN suite.desc_dict :
                suite.desc_dict[key].kind = "list"

\* C36 witness: a description with one source path and one rule, not
\* written as lists, is accepted and holds lists.
C36_Witness ==
    /\ suite.pc = "constructed"
    /\ suite.loaded.d["src_paths"].kind = "str"
    /\ suite.desc_dict["src_paths"] = YList(<<YStr(<<"src">>)>>)
    /\ "exclude_from_page" \in DOMAIN suite.loaded.d
    /\ suite.loaded.d["exclude_from_page"].kind = "str"
    /\ suite.exclude_regex_list = <<RuleLib>>

\* ------------------------------------------------------------------------
\* The coverage handlers in the chain (Spec)
\* ------------------------------------------------------------------------

\* C37: the chain built for a request has the handler of instrumented
\* sources and the handler that stores coverage exactly when the
\* instrumenter map held an instrumenter as the request came in, and
\* whenever the handler that stores coverage is in a chain the server has
\* its coverage store, also while start() is starting the instrumenters.
C37_CoverageHandlersWithInstrumenters ==
    request # NoRequest
    => /\ InSeq("InstrumentedSrcPageHandler", response.handlers)
             <=> response.instr_names # {}
       /\ InSeq("StoreCoveragePageHandler", response.handlers)
             <=> response.instr_names # {}
       /\ InSeq("StoreCoveragePageHandler", response.handlers)
             => coverage_data # "None"

\* C37 witness: a coverage report was stored while start() had registered
\* one instrumenter and was starting the next.
C37_Witness ==
    /\ request # NoRequest
    /\ request.method = "POST"
    /\ response.status = 200
    /\ start.pc = "starting"
    /\ response.instr_names # {}
    /\ response.instr_names # DOMAIN desc_dict
    /\ InSeq("StoreCoveragePageHandler", response.handlers)

====
